---- MODULE Spec2Model ----
(***************************************************************************)
(* State-machine model of the SIAF backend (dianadzc/Backend-SIAF).        *)
(*                                                                         *)
(* The store is the SQLite database of scripts/init-database.js; every     *)
(* db.run / db.get of a route handler is one atomic store statement        *)
(* (autocommit, no transaction is ever opened).  A handler that issues a   *)
(* statement from inside the callback of an earlier one is a request in    *)
(* flight: its statements are separate steps and statements of other       *)
(* requests may run between them.                                          *)
(*                                                                         *)
(* Rows keep the columns the handlers below read or write in their WHERE   *)
(* and SET clauses; free-text columns that no handler reads back (name,    *)
(* description, brand, ...) are left out.  A table is a sequence indexed   *)
(* by the AUTOINCREMENT id; no handler ever deletes a row.                 *)
(***************************************************************************)
EXTENDS Integers, Sequences, FiniteSets, TLC

VARIABLES
    assets,      \* table assets          (init-database.js:32-53)
    forms,       \* table responsive_forms (init-database.js:98-116)
    maintenances,\* table maintenances    (init-database.js:77-95)
    incidents,   \* table incidents       (init-database.js:56-74)
    users,       \* table users           (init-database.js:10-21)
    reqs,        \* requests in flight: handlers waiting for a store callback
    now,         \* CURRENT_TIMESTAMP / new Date(), in ticks
    res          \* the last response sent, with the request it answers

vars == <<assets, forms, maintenances, incidents, users, reqs, now, res>>

----------------------------------------------------------------------------
(* Bounds of the model                                                     *)

MaxUsers  == 2      \* user ids that appear in requests
MaxAssets == 2      \* asset rows
MaxForms  == 1      \* responsive_forms rows
MaxMaint  == 2      \* maintenances rows
MaxInc    == 1      \* incidents rows
MaxReqs   == 2      \* requests in flight at the same time
MaxRand   == 2      \* range of the random suffix of a generated code
MaxNow    == 2      \* last tick of the clock

(* SQL NULL (also what an absent body field is bound as).  Ids and dates   *)
(* start at 1, so 0 is free for integer columns.                           *)
NULL    == 0
NullStr == "NULL"

Users     == 1..MaxUsers
UserOrNull == Users \cup {NULL}

(* bcrypt.hash / bcrypt.hashSync and bcrypt.compare: a hash is not the     *)
(* password, and a password matches exactly the hashes made from it.       *)
Hash(password) == <<"$2a$10$", password>>
Compare(password, hash) == hash = Hash(password)

(* A row of users; the password column holds the bcrypt hash.              *)
UserRow(username, email, password, role) ==
    [username |-> username, email |-> email, password |-> password,
     role |-> role, active |-> TRUE, updated_at |-> 1]

(* The users table after scripts/init-database.js: the seeded admin.       *)
SeedUsers ==
    <<UserRow("admin", "admin@beachscape.com", Hash("admin123"), "admin")>>

Idle == [pc |-> "idle"]

(* The lowest free slot for a request that must wait for a callback.       *)
FreeSlots == {r \in 1..MaxReqs : reqs[r] = Idle}
NewSlot   == CHOOSE r \in FreeSlots : \A q \in FreeSlots : r <= q

(* A response: the endpoint, the :id of the request (lastID for a create), *)
(* the decision or status the body carried, and the HTTP status code.      *)
Response(op, id, arg, code) == [op |-> op, id |-> id, arg |-> arg, code |-> code]

NoResponse == Response("none", 0, NullStr, 0)

(* Requests in flight that are about to insert a row (pc names the insert) *)
Inserting(pc) == Cardinality({r \in 1..MaxReqs : reqs[r].pc = pc})

(* WHERE id = ? matches a row                                              *)
Has(table, id) == id \in DOMAIN table

----------------------------------------------------------------------------
(* Assets: routes of src/unnamed/part_000 (assets router)                  *)

AssetRow(asset_code, status, responsible_user_id) ==
    [asset_code |-> asset_code, status |-> status,
     responsible_user_id |-> responsible_user_id]

FormFrame  == UNCHANGED <<maintenances, incidents, users, now>>

(* POST /assets, first statement: SELECT id FROM assets WHERE asset_code=? *)
(* asset_code = NULL stands for an empty code; bodyOk for the name and     *)
(* category_id rules.                                                      *)
CreateAssetCheck(asset_code, status, responsible_user_id, bodyOk, err) ==
    /\ FormFrame
    /\ UNCHANGED <<assets, forms>>
    /\ IF ~bodyOk \/ asset_code = NULL
       THEN /\ res' = Response("asset_create", 0, status, 400)
            /\ UNCHANGED reqs
       ELSE IF err
       THEN /\ res' = Response("asset_create", 0, status, 500)
            /\ UNCHANGED reqs
       ELSE IF \E a \in DOMAIN assets : assets[a].asset_code = asset_code
       THEN /\ res' = Response("asset_create", 0, status, 400)
            /\ UNCHANGED reqs
       ELSE /\ FreeSlots # {}
            /\ Len(assets) + Inserting("ins_asset") < MaxAssets
            /\ reqs' = [reqs EXCEPT ![NewSlot] =
                          [pc |-> "ins_asset",
                           row |-> AssetRow(asset_code, status, responsible_user_id)]]
            /\ UNCHANGED res

(* POST /assets, second statement: INSERT INTO assets; asset_code is       *)
(* UNIQUE NOT NULL in the schema, so a duplicate makes the statement fail. *)
CreateAssetInsert(r, err) ==
    /\ FormFrame
    /\ reqs[r].pc = "ins_asset"
    /\ reqs' = [reqs EXCEPT ![r] = Idle]
    /\ UNCHANGED forms
    /\ IF err \/ \E a \in DOMAIN assets : assets[a].asset_code = reqs[r].row.asset_code
       THEN /\ res' = Response("asset_create", 0, reqs[r].row.status, 500)
            /\ UNCHANGED assets
       ELSE /\ assets' = Append(assets, reqs[r].row)
            /\ res' = Response("asset_create", Len(assets) + 1, reqs[r].row.status, 201)

(* PUT /assets/:id: one UPDATE that binds every column from the body,      *)
(* responsible_user_id included; asset_code is not in its SET list.        *)
UpdateAsset(id, status, responsible_user_id, bodyOk, err) ==
    /\ FormFrame
    /\ UNCHANGED <<forms, reqs>>
    /\ IF ~bodyOk
       THEN /\ res' = Response("asset_update", id, status, 400)
            /\ UNCHANGED assets
       ELSE IF err
       THEN /\ res' = Response("asset_update", id, status, 500)
            /\ UNCHANGED assets
       ELSE IF ~Has(assets, id)
       THEN /\ res' = Response("asset_update", id, status, 404)
            /\ UNCHANGED assets
       ELSE /\ assets' = [assets EXCEPT ![id] =
                            [@ EXCEPT !.status = status,
                                      !.responsible_user_id = responsible_user_id]]
            /\ res' = Response("asset_update", id, status, 200)

(* A delete that removes the row (DELETE FROM assets WHERE id = ?)         *)
DeleteAsset_Removes(id, isAdmin, err) ==
    /\ FormFrame
    /\ UNCHANGED <<forms, reqs>>
    /\ isAdmin /\ ~err /\ Has(assets, id)
    /\ assets' = [a \in 1..(Len(assets) - 1) |->
                    IF a < id THEN assets[a] ELSE assets[a + 1]]
    /\ res' = Response("asset_delete", id, NullStr, 200)

(* DELETE /assets/:id (admin only): UPDATE assets SET status = 'inactive'  *)
DeleteAsset(id, isAdmin, err) ==
    /\ FormFrame
    /\ UNCHANGED <<forms, reqs>>
    /\ IF ~isAdmin
       THEN /\ res' = Response("asset_delete", id, NullStr, 403)
            /\ UNCHANGED assets
       ELSE IF err
       THEN /\ res' = Response("asset_delete", id, NullStr, 500)
            /\ UNCHANGED assets
       ELSE IF ~Has(assets, id)
       THEN /\ res' = Response("asset_delete", id, NullStr, 404)
            /\ UNCHANGED assets
       ELSE /\ assets' = [assets EXCEPT ![id].status = "inactive"]
            /\ res' = Response("asset_delete", id, NullStr, 200)

----------------------------------------------------------------------------
(* Responsive forms: src/routes/responsiveForms.js, lines 1-409            *)

(* generateFormCode / generateIncidentCode / generateMaintenanceCode: the  *)
(* date of the generation and a random suffix.  Two codes of one kind are  *)
(* equal exactly when both parts are.                                      *)
GeneratedCode(date, random) == <<date, random>>

RandomSuffix == 0..(MaxRand - 1)

FormRow(form_code, asset_id, previous_responsible_id, new_responsible_id) ==
    [form_code |-> form_code, asset_id |-> asset_id,
     previous_responsible_id |-> previous_responsible_id,
     new_responsible_id |-> new_responsible_id,
     approved_by |-> NULL, status |-> "pending"]

(* POST /responsive-forms, first statement:                                *)
(* SELECT responsible_user_id FROM assets WHERE id = ?                     *)
CreateFormGetAsset(asset_id, new_responsible_id, random, bodyOk, err) ==
    /\ FormFrame
    /\ UNCHANGED <<assets, forms>>
    /\ IF ~bodyOk
       THEN /\ res' = Response("form_create", 0, NullStr, 400)
            /\ UNCHANGED reqs
       ELSE IF err
       THEN /\ res' = Response("form_create", 0, NullStr, 500)
            /\ UNCHANGED reqs
       ELSE IF ~Has(assets, asset_id)
       THEN /\ res' = Response("form_create", 0, NullStr, 404)
            /\ UNCHANGED reqs
       ELSE /\ FreeSlots # {}
            /\ \/ Len(forms) + Inserting("ins_form") < MaxForms
               \/ \E f \in DOMAIN forms :
                     forms[f].form_code = GeneratedCode(now, random)
            /\ reqs' = [reqs EXCEPT ![NewSlot] =
                          [pc |-> "ins_form",
                           row |-> FormRow(GeneratedCode(now, random), asset_id,
                                           assets[asset_id].responsible_user_id,
                                           new_responsible_id)]]
            /\ UNCHANGED res

(* POST /responsive-forms, second statement: INSERT INTO responsive_forms  *)
(* ... 'pending'; form_code is UNIQUE in the schema.                       *)
CreateFormInsert(r, err) ==
    /\ FormFrame
    /\ reqs[r].pc = "ins_form"
    /\ reqs' = [reqs EXCEPT ![r] = Idle]
    /\ UNCHANGED assets
    /\ IF err \/ \E f \in DOMAIN forms : forms[f].form_code = reqs[r].row.form_code
       THEN /\ res' = Response("form_create", 0, NullStr, 500)
            /\ UNCHANGED forms
       ELSE /\ forms' = Append(forms, reqs[r].row)
            /\ res' = Response("form_create", Len(forms) + 1, NullStr, 201)

(* A decision that is not looked at *)
DecisionStatus_Ignored(approved) == "approved"

(* const status = approved ? 'approved' : 'rejected'                       *)
DecisionStatus(approved) == IF approved THEN "approved" ELSE "rejected"

(* The body's "approved" as the response record keeps it                   *)
BoolArg(approved) == IF approved THEN "true" ELSE "false"

(* The row the first UPDATE of approve would change, with its status      *)
(* condition left out                                                      *)
FormIsPending_NoStatus(id) == Has(forms, id)

(* WHERE id = ? AND status = 'pending'                                     *)
FormIsPending(id) == Has(forms, id) /\ forms[id].status = "pending"

(* PUT /responsive-forms/:id/approve, first statement:                     *)
(* UPDATE responsive_forms SET status = ?, approved_by = ?, ...            *)
(*  WHERE id = ? AND status = 'pending'                                    *)
ApproveUpdateForm(id, approved, approved_by, bodyOk, err) ==
    /\ FormFrame
    /\ UNCHANGED assets
    /\ IF ~bodyOk
       THEN /\ res' = Response("form_decide", id, BoolArg(approved), 400)
            /\ UNCHANGED <<forms, reqs>>
       ELSE IF err
       THEN /\ res' = Response("form_decide", id, BoolArg(approved), 500)
            /\ UNCHANGED <<forms, reqs>>
       ELSE IF ~FormIsPending(id)
       THEN /\ res' = Response("form_decide", id, BoolArg(approved), 404)
            /\ UNCHANGED <<forms, reqs>>
       ELSE /\ forms' = [forms EXCEPT ![id] =
                           [@ EXCEPT !.status = DecisionStatus(approved),
                                     !.approved_by = approved_by]]
            /\ IF approved
               THEN /\ FreeSlots # {}
                    /\ reqs' = [reqs EXCEPT ![NewSlot] = [pc |-> "get_form", id |-> id]]
                    /\ UNCHANGED res
               ELSE /\ res' = Response("form_decide", id, BoolArg(approved), 200)
                    /\ UNCHANGED reqs

(* approve, second statement:                                              *)
(* SELECT asset_id, new_responsible_id FROM responsive_forms WHERE id = ?  *)
ApproveGetForm(r, err) ==
    /\ FormFrame
    /\ reqs[r].pc = "get_form"
    /\ UNCHANGED <<assets, forms>>
    /\ IF err \/ ~Has(forms, reqs[r].id)
       THEN /\ res' = Response("form_decide", reqs[r].id, "true", 500)
            /\ reqs' = [reqs EXCEPT ![r] = Idle]
       ELSE /\ reqs' = [reqs EXCEPT ![r] =
                          [pc |-> "upd_asset", id |-> reqs[r].id,
                           asset_id |-> forms[reqs[r].id].asset_id,
                           new_responsible_id |-> forms[reqs[r].id].new_responsible_id]]
            /\ UNCHANGED res

(* approve, third statement:                                               *)
(* UPDATE assets SET responsible_user_id = ? WHERE id = ?                  *)
(* (changes is not looked at: an absent asset still answers success)       *)
ApproveUpdateAsset(r, err) ==
    /\ FormFrame
    /\ reqs[r].pc = "upd_asset"
    /\ UNCHANGED forms
    /\ reqs' = [reqs EXCEPT ![r] = Idle]
    /\ IF err
       THEN /\ res' = Response("form_decide", reqs[r].id, "true", 500)
            /\ UNCHANGED assets
       ELSE /\ assets' = IF Has(assets, reqs[r].asset_id)
                         THEN [assets EXCEPT ![reqs[r].asset_id].responsible_user_id =
                                                reqs[r].new_responsible_id]
                         ELSE assets
            /\ res' = Response("form_decide", reqs[r].id, "true", 200)

(* The server process stops and is started again: the callbacks of the     *)
(* requests in flight are never run; the database file keeps every         *)
(* statement already executed.                                             *)
Crash ==
    /\ \E r \in 1..MaxReqs : reqs[r] # Idle
    /\ reqs' = [r \in 1..MaxReqs |-> Idle]
    /\ UNCHANGED <<assets, forms, maintenances, incidents, users, now, res>>


----------------------------------------------------------------------------
(* The clock of the store (CURRENT_TIMESTAMP) and of the process           *)
(* (new Date()): it only moves forward.                                    *)
Tick ==
    /\ now < MaxNow
    /\ now' = now + 1
    /\ UNCHANGED <<assets, forms, maintenances, incidents, users, reqs, res>>

----------------------------------------------------------------------------
(* Maintenances: src/routes/responsiveForms.js, lines 411-792              *)

MaintFrame == UNCHANGED <<assets, forms, incidents, reqs, users, now>>

MaintenanceRow(maintenance_code, cost, notes) ==
    [maintenance_code |-> maintenance_code, status |-> "scheduled",
     completed_date |-> NULL, cost |-> cost, notes |-> notes]

(* A create that draws another suffix when its code is taken              *)
CreateMaintenance_Resamples(random, cost, notes, bodyOk, err) ==
    /\ MaintFrame
    /\ bodyOk /\ ~err
    /\ Len(maintenances) < MaxMaint
    /\ \E rnd \in RandomSuffix :
          /\ \A m \in DOMAIN maintenances :
                maintenances[m].maintenance_code # GeneratedCode(now, rnd)
          /\ maintenances' = Append(maintenances,
                                 MaintenanceRow(GeneratedCode(now, rnd), cost, notes))
    /\ res' = Response("maint_create", Len(maintenances) + 1, "scheduled", 201)

(* POST /maintenances: INSERT INTO maintenances (...) VALUES (..., 'scheduled') *)
(* maintenance_code is UNIQUE in the schema.                               *)
(* The model holds at most MaxMaint rows: the bound stops only a create    *)
(* that would add one.                                                     *)
CreateMaintenance(random, cost, notes, bodyOk, err) ==
    /\ MaintFrame
    /\ IF ~bodyOk
       THEN /\ res' = Response("maint_create", 0, NullStr, 400)
            /\ UNCHANGED maintenances
       ELSE IF err \/ \E m \in DOMAIN maintenances :
                         maintenances[m].maintenance_code = GeneratedCode(now, random)
       THEN /\ res' = Response("maint_create", 0, NullStr, 500)
            /\ UNCHANGED maintenances
       ELSE /\ Len(maintenances) < MaxMaint
            /\ maintenances' = Append(maintenances,
                                  MaintenanceRow(GeneratedCode(now, random), cost, notes))
            /\ res' = Response("maint_create", Len(maintenances) + 1, "scheduled", 201)

(* PUT /maintenances/:id: UPDATE maintenances SET ..., cost = ?, notes = ?, *)
(* status = ? WHERE id = ?  -- status is bound from the body as it comes.  *)
UpdateMaintenance(id, status, cost, notes, bodyOk, err) ==
    /\ MaintFrame
    /\ IF ~bodyOk
       THEN /\ res' = Response("maint_update", id, status, 400)
            /\ UNCHANGED maintenances
       ELSE IF err
       THEN /\ res' = Response("maint_update", id, status, 500)
            /\ UNCHANGED maintenances
       ELSE IF ~Has(maintenances, id)
       THEN /\ res' = Response("maint_update", id, status, 404)
            /\ UNCHANGED maintenances
       ELSE /\ maintenances' = [maintenances EXCEPT ![id] =
                                  [@ EXCEPT !.status = status, !.cost = cost,
                                            !.notes = notes]]
            /\ res' = Response("maint_update", id, status, 200)

(* start without its status condition                                      *)
CanStart_NoStatus(id) == Has(maintenances, id)

(* WHERE id = ? AND status = 'scheduled'                                   *)
CanStart(id) == Has(maintenances, id) /\ maintenances[id].status = "scheduled"

(* complete without its status condition                                   *)
CanComplete_NoStatus(id) == Has(maintenances, id)

(* WHERE id = ? AND status IN ('scheduled', 'in_progress')                 *)
CanComplete(id) ==
    Has(maintenances, id) /\ maintenances[id].status \in {"scheduled", "in_progress"}

(* PUT /maintenances/:id/start:                                            *)
(* UPDATE maintenances SET status = 'in_progress'                          *)
(*  WHERE id = ? AND status = 'scheduled'                                  *)
StartMaintenance(id, err) ==
    /\ MaintFrame
    /\ IF err
       THEN /\ res' = Response("maint_start", id, NullStr, 500)
            /\ UNCHANGED maintenances
       ELSE IF ~CanStart(id)
       THEN /\ res' = Response("maint_start", id, NullStr, 404)
            /\ UNCHANGED maintenances
       ELSE /\ maintenances' = [maintenances EXCEPT ![id].status = "in_progress"]
            /\ res' = Response("maint_start", id, NullStr, 200)

(* PUT /maintenances/:id/complete:                                         *)
(* UPDATE maintenances SET status = 'completed', completed_date =          *)
(*  CURRENT_TIMESTAMP [, notes = ?] [, cost = ?]                           *)
(*  WHERE id = ? AND status IN ('scheduled', 'in_progress')                *)
(* notes and cost are set only when the body value is truthy; the handler  *)
(* never looks at validationResult.                                        *)
CompleteMaintenance(id, notes, cost, err) ==
    /\ MaintFrame
    /\ IF err
       THEN /\ res' = Response("maint_complete", id, NullStr, 500)
            /\ UNCHANGED maintenances
       ELSE IF ~CanComplete(id)
       THEN /\ res' = Response("maint_complete", id, NullStr, 404)
            /\ UNCHANGED maintenances
       ELSE /\ maintenances' = [maintenances EXCEPT ![id] =
                                  [@ EXCEPT !.status = "completed",
                                            !.completed_date = now,
                                            !.notes = IF notes # NullStr THEN notes ELSE @,
                                            !.cost = IF cost # NULL THEN cost ELSE @]]
            /\ res' = Response("maint_complete", id, NullStr, 200)

----------------------------------------------------------------------------
(* Incidents: src/unnamed/part_000, lines 189-521 (incidents router)       *)

IncFrame == UNCHANGED <<assets, forms, maintenances, reqs, users, now>>

(* reported_date DATETIME DEFAULT CURRENT_TIMESTAMP; resolved_date and     *)
(* solution have no default and are not in the INSERT's column list.       *)
IncidentRow(incident_code, assigned_to) ==
    [incident_code |-> incident_code, status |-> "open",
     assigned_to |-> assigned_to, reported_date |-> now,
     resolved_date |-> NULL, solution |-> NullStr]

(* POST /incidents: INSERT INTO incidents (...) VALUES (..., 'open')       *)
CreateIncident(random, assigned_to, bodyOk, err) ==
    /\ IncFrame
    /\ IF ~bodyOk
       THEN /\ res' = Response("inc_create", 0, NullStr, 400)
            /\ UNCHANGED incidents
       ELSE IF err \/ \E i \in DOMAIN incidents :
                         incidents[i].incident_code = GeneratedCode(now, random)
       THEN /\ res' = Response("inc_create", 0, NullStr, 500)
            /\ UNCHANGED incidents
       ELSE /\ Len(incidents) < MaxInc
            /\ incidents' = Append(incidents,
                               IncidentRow(GeneratedCode(now, random), assigned_to))
            /\ res' = Response("inc_create", Len(incidents) + 1, "open", 201)

(* An update that stamps resolved_date for 'in_progress' as well           *)
StampsResolution_TooWide(status) == status \in {"in_progress", "resolved", "closed"}

(* if (status === 'resolved' || status === 'closed')                       *)
StampsResolution(status) == status \in {"resolved", "closed"}

(* PUT /incidents/:id: UPDATE incidents SET ..., status = ?, assigned_to   *)
(* = ?, solution = ? [, resolved_date = CURRENT_TIMESTAMP] WHERE id = ?    *)
(* The resolved_date clause is added when the body's status is 'resolved'  *)
(* or 'closed'.                                                            *)
UpdateIncident(id, status, assigned_to, solution, bodyOk, err) ==
    /\ IncFrame
    /\ IF ~bodyOk
       THEN /\ res' = Response("inc_update", id, status, 400)
            /\ UNCHANGED incidents
       ELSE IF err
       THEN /\ res' = Response("inc_update", id, status, 500)
            /\ UNCHANGED incidents
       ELSE IF ~Has(incidents, id)
       THEN /\ res' = Response("inc_update", id, status, 404)
            /\ UNCHANGED incidents
       ELSE /\ incidents' = [incidents EXCEPT ![id] =
                               [@ EXCEPT !.status = status,
                                         !.assigned_to = assigned_to,
                                         !.solution = solution,
                                         !.resolved_date =
                                             IF StampsResolution(status)
                                             THEN now ELSE @]]
            /\ res' = Response("inc_update", id, status, 200)

(* PUT /incidents/:id/assign:                                              *)
(* UPDATE incidents SET assigned_to = ?, status = 'assigned' WHERE id = ?  *)
(* assigned_to = NULL stands for a body value that is not an integer.      *)
AssignIncident(id, assigned_to, err) ==
    /\ IncFrame
    /\ IF assigned_to = NULL
       THEN /\ res' = Response("inc_assign", id, NullStr, 400)
            /\ UNCHANGED incidents
       ELSE IF err
       THEN /\ res' = Response("inc_assign", id, NullStr, 500)
            /\ UNCHANGED incidents
       ELSE IF ~Has(incidents, id)
       THEN /\ res' = Response("inc_assign", id, NullStr, 404)
            /\ UNCHANGED incidents
       ELSE /\ incidents' = [incidents EXCEPT ![id] =
                               [@ EXCEPT !.assigned_to = assigned_to,
                                         !.status = "assigned"]]
            /\ res' = Response("inc_assign", id, NullStr, 200)

(* A resolve that leaves resolved_date out of its SET list                 *)
ResolveIncident_NoStamp(id, solution, err) ==
    /\ IncFrame
    /\ IF solution = NullStr
       THEN /\ res' = Response("inc_resolve", id, solution, 400)
            /\ UNCHANGED incidents
       ELSE IF err
       THEN /\ res' = Response("inc_resolve", id, solution, 500)
            /\ UNCHANGED incidents
       ELSE IF ~Has(incidents, id)
       THEN /\ res' = Response("inc_resolve", id, solution, 404)
            /\ UNCHANGED incidents
       ELSE /\ incidents' = [incidents EXCEPT ![id] =
                               [@ EXCEPT !.solution = solution,
                                         !.status = "resolved"]]
            /\ res' = Response("inc_resolve", id, solution, 200)

(* PUT /incidents/:id/resolve:                                             *)
(* UPDATE incidents SET solution = ?, status = 'resolved',                 *)
(*  resolved_date = CURRENT_TIMESTAMP WHERE id = ?                         *)
(* solution = NullStr stands for an empty or absent solution.              *)
ResolveIncident(id, solution, err) ==
    /\ IncFrame
    /\ IF solution = NullStr
       THEN /\ res' = Response("inc_resolve", id, solution, 400)
            /\ UNCHANGED incidents
       ELSE IF err
       THEN /\ res' = Response("inc_resolve", id, solution, 500)
            /\ UNCHANGED incidents
       ELSE IF ~Has(incidents, id)
       THEN /\ res' = Response("inc_resolve", id, solution, 404)
            /\ UNCHANGED incidents
       ELSE /\ incidents' = [incidents EXCEPT ![id] =
                               [@ EXCEPT !.solution = solution,
                                         !.status = "resolved",
                                         !.resolved_date = now]]
            /\ res' = Response("inc_resolve", id, solution, 200)

----------------------------------------------------------------------------
(* The state after scripts/init-database.js: every table of the model is   *)
(* empty (only users and asset_categories are seeded), nothing in flight.  *)
Init ==
    /\ assets = <<>>
    /\ forms = <<>>
    /\ maintenances = <<>>
    /\ incidents = <<>>
    /\ reqs = [r \in 1..MaxReqs |-> Idle]
    /\ now = 1
    /\ users = SeedUsers
    /\ res = NoResponse

(* Values the requests of the model carry *)
AssetIds      == 1..(MaxAssets + 1)     \* one id more than rows can exist
FormIds       == 1..(MaxForms + 1)
AssetCodes    == 0..MaxAssets           \* 0: empty asset_code
AssetStatuses == {"active", "inactive"}

(* Asset registry: create, update, soft delete.                            *)
AssetsStep(Errs, Oks) ==
    \E err \in Errs, bodyOk \in Oks :
        \/ \E c \in AssetCodes, st \in AssetStatuses, u \in UserOrNull :
               CreateAssetCheck(c, st, u, bodyOk, err)
        \/ \E r \in 1..MaxReqs : CreateAssetInsert(r, err)
        \/ \E a \in AssetIds, st \in AssetStatuses, u \in UserOrNull :
               UpdateAsset(a, st, u, bodyOk, err)
        \/ \E a \in AssetIds : DeleteAsset(a, bodyOk, err)

NextAssets == AssetsStep({FALSE}, BOOLEAN)
SpecAssets == Init /\ [][NextAssets]_vars

(* Responsibility transfers.  The asset table is one the asset registry    *)
(* has filled: MaxAssets active assets with distinct codes, each with any  *)
(* responsible user or none.                                               *)
InitForms ==
    /\ assets \in [1..MaxAssets -> {AssetRow(c, "active", u) : c \in 1..MaxAssets, u \in UserOrNull}]
    /\ \A a \in 1..MaxAssets : assets[a].asset_code = a
    /\ forms = <<>>
    /\ maintenances = <<>>
    /\ incidents = <<>>
    /\ reqs = [r \in 1..MaxReqs |-> Idle]
    /\ now = 1
    /\ users = SeedUsers
    /\ res = NoResponse

(* Creates arrive while the table has room for their row                   *)
FormsStep(Errs, Oks) ==
    \E err \in Errs, bodyOk \in Oks :
        \/ \E a \in AssetIds, u \in UserOrNull :
               UpdateAsset(a, "active", u, bodyOk, err)
        \/ \E a \in AssetIds : DeleteAsset(a, bodyOk, err)
        \/ \E a \in AssetIds, u \in Users, rnd \in RandomSuffix :
               /\ (bodyOk /\ ~err /\ Has(assets, a))
                     => Len(forms) + Inserting("ins_form") < MaxForms
               /\ CreateFormGetAsset(a, u, rnd, bodyOk, err)
        \/ \E r \in 1..MaxReqs : CreateFormInsert(r, err)
        \/ \E f \in FormIds, approved \in BOOLEAN :
               ApproveUpdateForm(f, approved, 1, bodyOk, err)
        \/ \E r \in 1..MaxReqs : ApproveGetForm(r, err)
        \/ \E r \in 1..MaxReqs : ApproveUpdateAsset(r, err)

NextForms == FormsStep({FALSE}, {TRUE})
SpecForms == InitForms /\ [][NextForms]_vars

NextFormsF == FormsStep(BOOLEAN, {TRUE}) \/ Crash
SpecFormsF == InitForms /\ [][NextFormsF]_vars

(* Maintenances *)
MaintIds      == 1..(MaxMaint + 1)
MaintStatuses == {"scheduled", "in_progress", "completed", NullStr}
Costs         == {NULL, 5}
Notes         == {NullStr, "note"}

MaintStep(Errs, Oks) ==
    \E err \in Errs, bodyOk \in Oks :
        \/ \E rnd \in RandomSuffix, c \in Costs, n \in Notes :
               CreateMaintenance(rnd, c, n, bodyOk, err)
        \/ \E m \in MaintIds, st \in MaintStatuses, c \in Costs, n \in Notes :
               UpdateMaintenance(m, st, c, n, bodyOk, err)
        \/ \E m \in MaintIds : StartMaintenance(m, err)
        \/ \E m \in MaintIds, c \in Costs, n \in Notes :
               CompleteMaintenance(m, n, c, err)

NextMaint == MaintStep({FALSE}, {TRUE}) \/ Tick
SpecMaint == Init /\ [][NextMaint]_vars

(* Incidents *)
IncIds      == 1..(MaxInc + 1)
IncStatuses == {"open", "assigned", "in_progress", "resolved", "closed", NullStr}
Assignees   == UserOrNull
Solutions   == {NullStr, "fixed", "patched"}

IncStep(Errs, Oks) ==
    \E err \in Errs, bodyOk \in Oks :
        \/ \E rnd \in RandomSuffix, u \in Assignees :
               CreateIncident(rnd, u, bodyOk, err)
        \/ \E i \in IncIds, st \in IncStatuses, u \in Assignees, so \in Solutions :
               UpdateIncident(i, st, u, so, bodyOk, err)
        \/ \E i \in IncIds, u \in Assignees : AssignIncident(i, u, err)
        \/ \E i \in IncIds, so \in Solutions : ResolveIncident(i, so, err)

NextInc == IncStep({FALSE}, {TRUE}) \/ Tick
SpecInc == Init /\ [][NextInc]_vars

----------------------------------------------------------------------------
(* Properties of the responsibility transfers                              *)

(* The request this step answers has just arrived: the step sends a        *)
(* response and completes no request that was waiting for a callback.      *)
Answers(op) == res' # res /\ res'.op = op /\ reqs' = reqs

(* C1: a form becomes 'approved' together with the write of its            *)
(* new_responsible_id to its asset: in the step that sets the status, the  *)
(* asset's responsible_user_id is that form's new_responsible_id, also     *)
(* when the store fails or the process stops between the two statements.   *)
C1_ApprovalIsAtomic ==
    [][\A f \in DOMAIN forms :
          (forms[f].status # "approved" /\ forms'[f].status = "approved")
          => assets'[forms'[f].asset_id].responsible_user_id
                 = forms'[f].new_responsible_id]_vars

(* C2: an asset's responsible_user_id changes only in the asset write of   *)
(* an approval of a form for that asset.                                   *)
C2_OnlyApprovalMovesResponsible ==
    [][\A a \in DOMAIN assets :
          assets'[a].responsible_user_id # assets[a].responsible_user_id
          => \E r \in 1..MaxReqs :
                /\ reqs[r].pc = "upd_asset"
                /\ reqs'[r] = Idle
                /\ reqs[r].asset_id = a
                /\ forms[reqs[r].id].status = "approved"
                /\ forms[reqs[r].id].asset_id = a]_vars

C4_FormLifecycle ==
    [][/\ Len(forms') >= Len(forms)
       /\ \A f \in DOMAIN forms' \ DOMAIN forms : forms'[f].status = "pending"
       /\ \A f \in DOMAIN forms :
             /\ forms'[f].status # forms[f].status
                => /\ forms[f].status = "pending"
                   /\ forms'[f].status \in {"approved", "rejected"}
             /\ (Answers("form_decide") /\ res'.id = f /\ forms[f].status # "pending")
                => /\ res'.code = 404
                   /\ forms' = forms
                   /\ assets' = assets]_vars

C4_Witness ==
    /\ res.op = "form_decide" /\ res.code = 404
    /\ res.id \in DOMAIN forms
    /\ forms[res.id].status \in {"approved", "rejected"}

----------------------------------------------------------------------------
(* Properties of the maintenances                                          *)

(* C5: start succeeds exactly from 'scheduled', complete exactly from      *)
(* 'scheduled' or 'in_progress'; from any other status the answer is 404   *)
(* and the row (status, completed_date, notes, cost) stays as it was.      *)
C5_StartCompleteGuarded ==
    [][\A m \in DOMAIN maintenances :
          /\ (Answers("maint_start") /\ res'.id = m)
             => IF maintenances[m].status = "scheduled"
                THEN res'.code = 200 /\ maintenances'[m].status = "in_progress"
                ELSE res'.code = 404 /\ maintenances'[m] = maintenances[m]
          /\ (Answers("maint_complete") /\ res'.id = m)
             => IF maintenances[m].status \in {"scheduled", "in_progress"}
                THEN res'.code = 200 /\ maintenances'[m].status = "completed"
                ELSE res'.code = 404 /\ maintenances'[m] = maintenances[m]]_vars

(* complete was refused on a maintenance completed at an earlier tick     *)
C5_Witness ==
    /\ res.op = "maint_complete" /\ res.code = 404
    /\ res.id \in DOMAIN maintenances
    /\ maintenances[res.id].status = "completed"
    /\ maintenances[res.id].completed_date # NULL
    /\ maintenances[res.id].completed_date < now

MaintRank(status) ==
    CASE status = "scheduled"   -> 1
      [] status = "in_progress" -> 2
      [] status = "completed"   -> 3
      [] OTHER                  -> 0

(* C6: through every endpoint a maintenance's status only moves forward    *)
(* along scheduled -> in_progress -> completed.                            *)
C6_MaintenanceOnlyForward ==
    [][\A m \in DOMAIN maintenances :
          MaintRank(maintenances'[m].status) >= MaintRank(maintenances[m].status)]_vars

----------------------------------------------------------------------------
(* Properties of the incidents                                             *)

(* C7: an incident is inserted with resolved_date NULL, and a NULL         *)
(* resolved_date becomes non-NULL only in a successful resolve of that     *)
(* incident or a successful update of it with status 'resolved' or         *)
(* 'closed'.                                                               *)
C7_ResolvedDateNullUntilResolved ==
    [][/\ \A i \in DOMAIN incidents' \ DOMAIN incidents :
             incidents'[i].resolved_date = NULL
       /\ \A i \in DOMAIN incidents :
             (incidents[i].resolved_date = NULL /\ incidents'[i].resolved_date # NULL)
             => /\ res'.id = i /\ res'.code = 200
                /\ \/ res'.op = "inc_resolve"
                   \/ res'.op = "inc_update" /\ res'.arg \in {"resolved", "closed"}]_vars

(* assigned, then updated with another status: still no resolved_date      *)
C7_Witness ==
    /\ res.op = "inc_update" /\ res.code = 200 /\ res.arg = "in_progress"
    /\ res.id \in DOMAIN incidents
    /\ incidents[res.id].assigned_to # NULL
    /\ incidents[res.id].resolved_date = NULL

(* C8: a resolving transition on an incident whose resolved_date is set    *)
(* leaves resolved_date at its earlier value.                              *)
C8_ResolvedDateStampedOnce ==
    [][\A i \in DOMAIN incidents :
          incidents[i].resolved_date # NULL
          => incidents'[i].resolved_date = incidents[i].resolved_date]_vars

(* C9: right after a successful create the incident is 'open' with         *)
(* resolved_date NULL; right after a successful resolve it is 'resolved',  *)
(* carries the solution of the request and a resolved_date that is set     *)
(* and not before its reported_date.                                       *)
C9_IncidentLifecycle ==
    /\ (res.op = "inc_create" /\ res.code = 201)
       => /\ res.id \in DOMAIN incidents
          /\ incidents[res.id].status = "open"
          /\ incidents[res.id].resolved_date = NULL
    /\ (res.op = "inc_resolve" /\ res.code = 200)
       => /\ res.id \in DOMAIN incidents
          /\ incidents[res.id].status = "resolved"
          /\ incidents[res.id].solution = res.arg
          /\ incidents[res.id].resolved_date # NULL
          /\ incidents[res.id].resolved_date >= incidents[res.id].reported_date

(* resolved at a later tick than reported                                  *)
C9_Witness ==
    /\ res.op = "inc_resolve" /\ res.code = 200
    /\ res.id \in DOMAIN incidents
    /\ incidents[res.id].solution = "fixed"
    /\ incidents[res.id].resolved_date > incidents[res.id].reported_date

IncidentRank(status) ==
    CASE status = "open"        -> 1
      [] status = "assigned"    -> 2
      [] status = "in_progress" -> 3
      [] status = "resolved"    -> 4
      [] status = "closed"      -> 5
      [] OTHER                  -> 0

(* C10: an incident's status only advances along open -> assigned ->       *)
(* in_progress -> resolved -> closed; an assign on a resolved or closed    *)
(* incident does not move it back to 'assigned'.                           *)
C10_IncidentOnlyForward ==
    [][\A i \in DOMAIN incidents :
          IncidentRank(incidents'[i].status) >= IncidentRank(incidents[i].status)]_vars

----------------------------------------------------------------------------
(* Properties of the asset registry                                        *)

(* C11: a create whose asset_code is already taken is answered with the    *)
(* conflict response (400 'El codigo del activo ya existe'), never with    *)
(* the generic 500, and adds no row, so asset_code stays unique; also      *)
(* when two creates with the same code are interleaved.                    *)
C11_DuplicateCodeIsConflict ==
    [][/\ \A a, b \in DOMAIN assets' :
             assets'[a].asset_code = assets'[b].asset_code => a = b
       /\ \A r \in 1..MaxReqs :
             (/\ reqs[r].pc = "ins_asset"
              /\ reqs'[r] = Idle
              /\ \E a \in DOMAIN assets :
                    assets[a].asset_code = reqs[r].row.asset_code)
             => /\ res'.op = "asset_create"
                /\ res'.code = 400
                /\ assets' = assets]_vars

----------------------------------------------------------------------------
(* The endpoints keyed by id, over all four tables                         *)

(* A store the create endpoints have filled: no row at all, the asset      *)
(* table with a pending transfer of asset 1, one scheduled maintenance,    *)
(* or one open incident.                                                   *)
InitKeyed ==
    /\ reqs = [r \in 1..MaxReqs |-> Idle]
    /\ now = 1
    /\ users = SeedUsers
    /\ res = NoResponse
    /\ \E u \in UserOrNull :
          \/ /\ assets = <<>> /\ forms = <<>>
             /\ maintenances = <<>> /\ incidents = <<>>
          \/ /\ assets = [a \in 1..MaxAssets |-> AssetRow(a, "active", u)]
             /\ forms = <<FormRow(GeneratedCode(1, 0), 1, u, 1)>>
             /\ maintenances = <<>> /\ incidents = <<>>
          \/ /\ assets = <<>> /\ forms = <<>>
             /\ maintenances = <<MaintenanceRow(GeneratedCode(1, 0), NULL, NullStr)>>
             /\ incidents = <<>>
          \/ /\ assets = <<>> /\ forms = <<>>
             /\ maintenances = <<>>
             /\ incidents = <<IncidentRow(GeneratedCode(1, 0), u)>>

(* Every update, transition and soft delete, each with one body            *)
KeyedStep ==
    \/ \E a \in AssetIds, u \in UserOrNull : UpdateAsset(a, "active", u, TRUE, FALSE)
    \/ \E a \in AssetIds, isAdmin \in BOOLEAN : DeleteAsset(a, isAdmin, FALSE)
    \/ \E f \in FormIds, approved \in BOOLEAN :
           ApproveUpdateForm(f, approved, 1, TRUE, FALSE)
    \/ \E r \in 1..MaxReqs : ApproveGetForm(r, FALSE)
    \/ \E r \in 1..MaxReqs : ApproveUpdateAsset(r, FALSE)
    \/ \E m \in MaintIds, st \in MaintStatuses :
           UpdateMaintenance(m, st, 5, "note", TRUE, FALSE)
    \/ \E m \in MaintIds : StartMaintenance(m, FALSE)
    \/ \E m \in MaintIds : CompleteMaintenance(m, "note", 5, FALSE)
    \/ \E i \in IncIds, st \in IncStatuses :
           UpdateIncident(i, st, 1, "fixed", TRUE, FALSE)
    \/ \E i \in IncIds, u \in Assignees : AssignIncident(i, u, FALSE)
    \/ \E i \in IncIds : ResolveIncident(i, "fixed", FALSE)

NextKeyed == KeyedStep
SpecKeyed == InitKeyed /\ [][NextKeyed]_vars

(* The WHERE clause of the statement of each endpoint keyed by id          *)
WhereMatches(op, id) ==
    CASE op \in {"asset_update", "asset_delete"} -> id \in DOMAIN assets
      [] op = "form_decide" ->
            id \in DOMAIN forms /\ forms[id].status = "pending"
      [] op = "maint_update" -> id \in DOMAIN maintenances
      [] op = "maint_start" ->
            id \in DOMAIN maintenances /\ maintenances[id].status = "scheduled"
      [] op = "maint_complete" ->
            /\ id \in DOMAIN maintenances
            /\ maintenances[id].status \in {"scheduled", "in_progress"}
      [] op \in {"inc_update", "inc_assign", "inc_resolve"} -> id \in DOMAIN incidents

KeyedOps == {"asset_update", "asset_delete", "form_decide", "maint_update",
             "maint_start", "maint_complete", "inc_update", "inc_assign",
             "inc_resolve"}

(* C12: when the statement of an update, transition or soft delete keyed   *)
(* by id matches no row, the request is answered 404, never a success,     *)
(* and no table changes; a success is answered only when a row matched.    *)
(* The asset written by the last statement of an approval always exists.   *)
C12_ZeroRowsIsNotFound ==
    [][/\ \A op \in KeyedOps :
             (Answers(op) /\ res'.code \notin {400, 403, 500}
                          /\ ~WhereMatches(op, res'.id))
             => /\ res'.code = 404
                /\ UNCHANGED <<assets, forms, maintenances, incidents>>
       /\ \A r \in 1..MaxReqs :
             reqs[r].pc = "upd_asset" => reqs[r].asset_id \in DOMAIN assets]_vars

(* a start of a maintenance that exists but is not scheduled was refused   *)
C12_Witness ==
    /\ res.op = "maint_start"
    /\ res.code = 404
    /\ res.id \in DOMAIN maintenances
    /\ maintenances[res.id].status # "scheduled"

----------------------------------------------------------------------------
(* Query construction of the list and report handlers                      *)
(* (part_000: incidents 209-297, assets 531-608; responsiveForms.js:       *)
(* forms 21-101, maintenances 431-517; part_001: reports 86-536)           *)

(* A value of req.query: NullStr when the parameter is absent, "" when it  *)
(* is given empty, a text otherwise.  `if (x)` is true for a non-empty     *)
(* text only.                                                              *)
Truthy_EmptyApplies(v) == v # NullStr

Truthy(v) == v # NullStr /\ v # ""

(* Bound parameters: a text made of the parts the code concatenates, or a  *)
(* number.                                                                 *)
Text(parts) == [text |-> parts]
Number(n) == [int |-> n]

(* A piece of SQL text appended to the query, with the number of '?' in it *)
Fragment(name, sql, marks) == [name |-> name, sql |-> sql, marks |-> marks]

(* One `if (x) { query += sql; params.push(...) }` of a handler            *)
Filter(name, sql, marks, bind) ==
    [name |-> name, sql |-> sql, marks |-> marks, bind |-> bind]

(* What params.push receives for a filter value v                          *)
Bind(bind, v) ==
    CASE bind = "exact"    -> <<Text(<<v>>)>>
      [] bind = "like"     -> LET searchTerm == Text(<<"%", v, "%">>)
                              IN  <<searchTerm, searchTerm, searchTerm, searchTerm>>
      [] bind = "endofday" -> <<Text(<<v, " 23:59:59">>)>>

(* The ifs of a handler, run in their order over req.query                 *)
RECURSIVE Build(_, _, _)
Build(filters, q, query) ==
    IF filters = <<>> THEN query
    ELSE LET f == Head(filters)
         IN  Build(Tail(filters), q,
                   IF Truthy(q[f.name])
                   THEN [sql    |-> Append(query.sql, Fragment(f.name, f.sql, f.marks)),
                         params |-> query.params \o Bind(f.bind, q[f.name])]
                   ELSE query)

ListEndpoints == {"assets", "incidents", "maintenances", "forms"}

SearchSql == " AND (a.name LIKE ? OR a.asset_code LIKE ? OR a.brand LIKE ? OR a.model LIKE ?)"

(* The ifs that build the page query of each list endpoint                 *)
PageFilters(ep) ==
    CASE ep = "assets" ->
           <<Filter("category", " AND a.category_id = ?", 1, "exact"),
             Filter("status", " AND a.status = ?", 1, "exact"),
             Filter("search", SearchSql, 4, "like")>>
      [] ep = "incidents" ->
           <<Filter("status", " AND i.status = ?", 1, "exact"),
             Filter("priority", " AND i.priority = ?", 1, "exact"),
             Filter("asset_id", " AND i.asset_id = ?", 1, "exact"),
             Filter("assigned_to", " AND i.assigned_to = ?", 1, "exact")>>
      [] ep = "maintenances" ->
           <<Filter("status", " AND m.status = ?", 1, "exact"),
             Filter("type", " AND m.type = ?", 1, "exact"),
             Filter("asset_id", " AND m.asset_id = ?", 1, "exact"),
             Filter("technician_id", " AND m.technician_id = ?", 1, "exact")>>
      [] ep = "forms" ->
           <<Filter("status", " AND rf.status = ?", 1, "exact"),
             Filter("asset_id", " AND rf.asset_id = ?", 1, "exact"),
             Filter("new_responsible_id", " AND rf.new_responsible_id = ?", 1, "exact")>>

(* a count query that lost the search filter of the assets list            *)
CountFilters_Drift(ep) ==
    IF ep = "assets" THEN SubSeq(PageFilters(ep), 1, 2) ELSE PageFilters(ep)

(* The ifs that build the count query, written a second time in the        *)
(* callback of the page query                                              *)
CountFilters(ep) ==
    CASE ep = "assets" ->
           <<Filter("category", " AND a.category_id = ?", 1, "exact"),
             Filter("status", " AND a.status = ?", 1, "exact"),
             Filter("search", SearchSql, 4, "like")>>
      [] ep = "incidents" ->
           <<Filter("status", " AND i.status = ?", 1, "exact"),
             Filter("priority", " AND i.priority = ?", 1, "exact"),
             Filter("asset_id", " AND i.asset_id = ?", 1, "exact"),
             Filter("assigned_to", " AND i.assigned_to = ?", 1, "exact")>>
      [] ep = "maintenances" ->
           <<Filter("status", " AND m.status = ?", 1, "exact"),
             Filter("type", " AND m.type = ?", 1, "exact"),
             Filter("asset_id", " AND m.asset_id = ?", 1, "exact"),
             Filter("technician_id", " AND m.technician_id = ?", 1, "exact")>>
      [] ep = "forms" ->
           <<Filter("status", " AND rf.status = ?", 1, "exact"),
             Filter("asset_id", " AND rf.asset_id = ?", 1, "exact"),
             Filter("new_responsible_id", " AND rf.new_responsible_id = ?", 1, "exact")>>

PageSelect(ep) ==
    CASE ep = "assets"       -> "SELECT a.*, ... FROM assets a ... WHERE 1=1"
      [] ep = "incidents"    -> "SELECT i.*, ... FROM incidents i ... WHERE 1=1"
      [] ep = "maintenances" -> "SELECT m.*, ... FROM maintenances m ... WHERE 1=1"
      [] ep = "forms"        -> "SELECT rf.*, ... FROM responsive_forms rf ... WHERE 1=1"

PageOrder(ep) ==
    CASE ep = "assets"       -> " ORDER BY a.created_at DESC LIMIT ? OFFSET ?"
      [] ep = "incidents"    -> " ORDER BY i.created_at DESC LIMIT ? OFFSET ?"
      [] ep = "maintenances" -> " ORDER BY m.scheduled_date DESC, m.created_at DESC LIMIT ? OFFSET ?"
      [] ep = "forms"        -> " ORDER BY rf.created_at DESC LIMIT ? OFFSET ?"

CountSelect(ep) ==
    CASE ep = "assets"       -> "SELECT COUNT(*) as total FROM assets a WHERE 1=1"
      [] ep = "incidents"    -> "SELECT COUNT(*) as total FROM incidents i WHERE 1=1"
      [] ep = "maintenances" -> "SELECT COUNT(*) as total FROM maintenances m WHERE 1=1"
      [] ep = "forms"        -> "SELECT COUNT(*) as total FROM responsive_forms rf WHERE 1=1"

(* query and params as db.all receives them; limit is parseInt(limit)      *)
PageQuery(ep, q, limit, offset) ==
    LET b == Build(PageFilters(ep), q,
                   [sql |-> <<Fragment("select", PageSelect(ep), 0)>>, params |-> <<>>])
    IN  [sql    |-> Append(b.sql, Fragment("page", PageOrder(ep), 2)),
         params |-> b.params \o <<Number(limit), Number(offset)>>]

(* countQuery and countParams as db.get receives them                      *)
CountQuery(ep, q) ==
    Build(CountFilters(ep), q,
          [sql |-> <<Fragment("select", CountSelect(ep), 0)>>, params |-> <<>>])

ReportEndpoints == {"/inventory", "/incidents", "/maintenance", "/responsive-forms",
                    "/requisitions"}

(* The ifs of each report handler                                          *)
ReportFilters(ep) ==
    CASE ep = "/inventory" ->
           <<Filter("category", " AND a.category_id = ?", 1, "exact"),
             Filter("status", " AND a.status = ?", 1, "exact"),
             Filter("responsible", " AND a.responsible_user_id = ?", 1, "exact"),
             Filter("dateFrom", " AND a.created_at >= ?", 1, "exact"),
             Filter("dateTo", " AND a.created_at <= ?", 1, "endofday")>>
      [] ep = "/incidents" ->
           <<Filter("status", " AND i.status = ?", 1, "exact"),
             Filter("priority", " AND i.priority = ?", 1, "exact"),
             Filter("asset_id", " AND i.asset_id = ?", 1, "exact"),
             Filter("dateFrom", " AND i.reported_date >= ?", 1, "exact"),
             Filter("dateTo", " AND i.reported_date <= ?", 1, "endofday")>>
      [] ep = "/maintenance" ->
           <<Filter("type", " AND m.type = ?", 1, "exact"),
             Filter("status", " AND m.status = ?", 1, "exact"),
             Filter("asset_id", " AND m.asset_id = ?", 1, "exact"),
             Filter("dateFrom", " AND m.scheduled_date >= ?", 1, "exact"),
             Filter("dateTo", " AND m.scheduled_date <= ?", 1, "exact")>>
      [] ep = "/responsive-forms" ->
           <<Filter("status", " AND rf.status = ?", 1, "exact"),
             Filter("asset_id", " AND rf.asset_id = ?", 1, "exact"),
             Filter("dateFrom", " AND rf.transfer_date >= ?", 1, "exact"),
             Filter("dateTo", " AND rf.transfer_date <= ?", 1, "exact")>>
      [] ep = "/requisitions" ->
           <<Filter("status", " AND r.status = ?", 1, "exact"),
             Filter("type", " AND r.type = ?", 1, "exact"),
             Filter("department", " AND r.department = ?", 1, "exact"),
             Filter("dateFrom", " AND r.created_at >= ?", 1, "exact"),
             Filter("dateTo", " AND r.created_at <= ?", 1, "endofday")>>

ReportSelect(ep) ==
    CASE ep = "/inventory"        -> "SELECT a.*, ... FROM assets a ... WHERE 1=1"
      [] ep = "/incidents"        -> "SELECT i.*, ... FROM incidents i ... WHERE 1=1"
      [] ep = "/maintenance"      -> "SELECT m.*, ... FROM maintenances m ... WHERE 1=1"
      [] ep = "/responsive-forms" -> "SELECT rf.*, ... FROM responsive_forms rf ... WHERE 1=1"
      [] ep = "/requisitions"     -> "SELECT r.*, ... FROM requisitions r ... WHERE 1=1"

ReportOrder(ep) ==
    CASE ep = "/inventory"        -> " ORDER BY a.created_at DESC"
      [] ep = "/incidents"        -> " ORDER BY i.reported_date DESC"
      [] ep = "/maintenance"      -> " ORDER BY m.scheduled_date DESC"
      [] ep = "/responsive-forms" -> " ORDER BY rf.transfer_date DESC"
      [] ep = "/requisitions"     -> " ORDER BY r.created_at DESC"

ReportQuery(ep, q) ==
    LET b == Build(ReportFilters(ep), q,
                   [sql |-> <<Fragment("select", ReportSelect(ep), 0)>>, params |-> <<>>])
    IN  [sql |-> Append(b.sql, Fragment("order", ReportOrder(ep), 0)),
         params |-> b.params]

(* GET /reports/user-activity: the five templates and their columns        *)
ActivityKeys == {"incidents_reported", "incidents_assigned", "maintenances_assigned",
                 "requisitions_made", "forms_approved"}

ActivitySelect(key) ==
    CASE key = "incidents_reported" ->
           "SELECT COUNT(*) as count FROM incidents WHERE reported_by = ?"
      [] key = "incidents_assigned" ->
           "SELECT COUNT(*) as count FROM incidents WHERE assigned_to = ?"
      [] key = "maintenances_assigned" ->
           "SELECT COUNT(*) as count FROM maintenances WHERE technician_id = ?"
      [] key = "requisitions_made" ->
           "SELECT COUNT(*) as count FROM requisitions WHERE requested_by = ?"
      [] key = "forms_approved" ->
           "SELECT COUNT(*) as count FROM responsive_forms WHERE approved_by = ?"

ActivityFrom(key) ==
    CASE key \in {"incidents_reported", "incidents_assigned"} -> "AND reported_date >= ?"
      [] key = "maintenances_assigned"                        -> "AND scheduled_date >= ?"
      [] key \in {"requisitions_made", "forms_approved"}      -> "AND created_at >= ?"

ActivityTo(key) ==
    CASE key \in {"incidents_reported", "incidents_assigned"} -> "AND reported_date <= ?"
      [] key = "maintenances_assigned"                        -> "AND scheduled_date <= ?"
      [] key \in {"requisitions_made", "forms_approved"}      -> "AND created_at <= ?"

(* queries[key]: the template literal, its ${...} pieces chosen by the     *)
(* truth of dateFrom and dateTo; the first '?' is the user's               *)
ActivitySql(key, q) ==
    <<Fragment("user_id", ActivitySelect(key), 1)>>
    \o (IF Truthy(q["dateFrom"])
        THEN <<Fragment("dateFrom", ActivityFrom(key), 1)>> ELSE <<>>)
    \o (IF Truthy(q["dateTo"])
        THEN <<Fragment("dateTo", ActivityTo(key), 1)>> ELSE <<>>)

(* let params = [user_id]; if (dateFrom) ...; if (dateTo) ...              *)
ActivityParams(q) ==
    <<Text(<<q["user_id"]>>)>>
    \o (IF Truthy(q["dateFrom"]) THEN <<Text(<<q["dateFrom"]>>)>> ELSE <<>>)
    \o (IF Truthy(q["dateTo"]) THEN <<Text(<<q["dateTo"], " 23:59:59">>)>> ELSE <<>>)

ActivityQuery(key, q) == [sql |-> ActivitySql(key, q), params |-> ActivityParams(q)]

(* The values a request gives to a filter                                  *)
QueryVals == {NullStr, "", "x"}
DateVals  == {NullStr, "", "2024-01-31"}
ValuesOf(name) == IF name \in {"dateFrom", "dateTo"} THEN DateVals ELSE QueryVals

FilterNames(filters) == {filters[i].name : i \in DOMAIN filters}

(* every req.query over the parameters a handler reads                     *)
Queries(names) ==
    {q \in [names -> QueryVals \cup DateVals] : \A n \in names : q[n] \in ValuesOf(n)}

(* const { page = 1, limit = 10, ... } = req.query                         *)
DefaultPage  == 1
DefaultLimit == 10

QueryFrame == UNCHANGED <<assets, forms, maintenances, incidents, users, now>>

(* The parameters a handler reads from req.query                           *)
HandlerParams(ep) ==
    IF ep \in ListEndpoints THEN FilterNames(PageFilters(ep))
    ELSE IF ep \in ReportEndpoints THEN FilterNames(ReportFilters(ep))
    ELSE {"user_id", "dateFrom", "dateTo"}

HandlerKind(ep) ==
    IF ep \in ListEndpoints THEN "list"
    ELSE IF ep \in ReportEndpoints THEN "report" ELSE "activity"

(* One request has arrived at a list handler, a report handler or the      *)
(* user-activity handler, with any req.query over the handler's filters.   *)
InitQuery ==
    /\ assets = <<>> /\ forms = <<>> /\ maintenances = <<>> /\ incidents = <<>>
    /\ now = 1
    /\ users = SeedUsers
    /\ res = NoResponse
    /\ \E ep \in ListEndpoints \cup ReportEndpoints \cup {"/user-activity"} :
          \E q \in Queries(HandlerParams(ep)) :
             reqs = [r \in 1..MaxReqs |->
                       IF r = 1 THEN [pc |-> HandlerKind(ep), ep |-> ep, q |-> q]
                       ELSE Idle]

(* The two statements a list request hands to the store, page and limit    *)
(* left to their defaults                                                  *)
ListStatements(r) ==
    /\ QueryFrame
    /\ reqs[r].pc = "list"
    /\ reqs' = [reqs EXCEPT ![r] = Idle]
    /\ res' = [op |-> "list_sql", ep |-> reqs[r].ep, q |-> reqs[r].q,
               page |-> PageQuery(reqs[r].ep, reqs[r].q, DefaultLimit,
                                  (DefaultPage - 1) * DefaultLimit),
               count |-> CountQuery(reqs[r].ep, reqs[r].q)]

(* The statement a report request hands to the store                       *)
ReportStatement(r) ==
    /\ QueryFrame
    /\ reqs[r].pc = "report"
    /\ reqs' = [reqs EXCEPT ![r] = Idle]
    /\ res' = [op |-> "report_sql", ep |-> reqs[r].ep, q |-> reqs[r].q,
               query |-> ReportQuery(reqs[r].ep, reqs[r].q)]

(* The five statements of GET /reports/user-activity, or its 400           *)
ActivityStatements(r) ==
    /\ QueryFrame
    /\ reqs[r].pc = "activity"
    /\ reqs' = [reqs EXCEPT ![r] = Idle]
    /\ IF ~Truthy(reqs[r].q["user_id"])
       THEN res' = Response("user_activity", 0, NullStr, 400)
       ELSE res' = [op |-> "activity_sql", ep |-> reqs[r].ep, q |-> reqs[r].q,
                    queries |-> [key \in ActivityKeys |-> ActivityQuery(key, reqs[r].q)]]

NextQuery ==
    \/ \E r \in 1..MaxReqs : ListStatements(r)
    \/ \E r \in 1..MaxReqs : ReportStatement(r)
    \/ \E r \in 1..MaxReqs : ActivityStatements(r)

SpecQuery == InitQuery /\ [][NextQuery]_vars

(* The predicate fragments of a statement, and the number of '?' in it     *)
Predicates(query) ==
    SelectSeq(query.sql, LAMBDA f : f.name \notin {"select", "page", "order"})

RECURSIVE Marks(_)
Marks(sql) == IF sql = <<>> THEN 0 ELSE Head(sql).marks + Marks(Tail(sql))

(* The parameters that fill the '?' of fragment i of a statement           *)
ParamsOf(query, i) ==
    SubSeq(query.params, Marks(SubSeq(query.sql, 1, i - 1)) + 1,
                         Marks(SubSeq(query.sql, 1, i)))

(* The statements of the last request, each with the names of the filters  *)
(* its handler declares, in the order of the source                        *)
Declared(ep) ==
    CASE ep = "assets"           -> <<"category", "status", "search">>
      [] ep = "incidents"        -> <<"status", "priority", "asset_id", "assigned_to">>
      [] ep = "maintenances"     -> <<"status", "type", "asset_id", "technician_id">>
      [] ep = "forms"            -> <<"status", "asset_id", "new_responsible_id">>
      [] ep = "/inventory"        -> <<"category", "status", "responsible", "dateFrom", "dateTo">>
      [] ep = "/incidents"        -> <<"status", "priority", "asset_id", "dateFrom", "dateTo">>
      [] ep = "/maintenance"      -> <<"type", "status", "asset_id", "dateFrom", "dateTo">>
      [] ep = "/responsive-forms" -> <<"status", "asset_id", "dateFrom", "dateTo">>
      [] ep = "/requisitions"     -> <<"status", "type", "department", "dateFrom", "dateTo">>
      [] ep = "/user-activity"    -> <<"user_id", "dateFrom", "dateTo">>

StatementsOf(r) ==
    CASE r.op = "list_sql"     -> {r.page, r.count}
      [] r.op = "report_sql"   -> {r.query}
      [] r.op = "activity_sql" -> {r.queries[key] : key \in ActivityKeys}
      [] OTHER                 -> {}

(* C14: in every list endpoint and for every subset of filters, the count  *)
(* query carries the same filter predicates, with the same bound values    *)
(* in the same order, as the page query, which adds only ORDER BY, LIMIT   *)
(* and OFFSET with their two parameters.                                   *)
C14_CountMatchesPage ==
    res.op = "list_sql" =>
        /\ Predicates(res.count) = Predicates(res.page)
        /\ res.page.params = res.count.params \o <<Number(DefaultLimit), Number(0)>>
        /\ res.page.sql[Len(res.page.sql)].name = "page"

(* an assets list with category and search given, status given empty       *)
C14_Witness ==
    /\ res.op = "list_sql"
    /\ res.ep = "assets"
    /\ res.q["category"] = "x" /\ res.q["status"] = "" /\ res.q["search"] = "x"
    /\ Len(res.count.params) = 5

(* C15: in every list and report statement a filter contributes its        *)
(* predicate and parameters exactly when its request value is present and  *)
(* non-empty; the predicates are in declaration order; the statement has   *)
(* as many '?' as parameters, and the '?' of each predicate are filled     *)
(* from that filter's value.                                               *)
C15_FiltersAligned ==
    \A query \in StatementsOf(res) :
        LET preds == Predicates(query)
            names == [i \in DOMAIN preds |-> preds[i].name]
        IN  /\ names = SelectSeq(Declared(res.ep),
                                 LAMBDA n : res.q[n] # NullStr /\ res.q[n] # "")
            /\ Marks(query.sql) = Len(query.params)
            /\ \A i \in DOMAIN query.sql :
                  query.sql[i].name \notin {"select", "page", "order"} =>
                      /\ ParamsOf(query, i) # <<>>
                      /\ \A k \in DOMAIN ParamsOf(query, i) :
                            \E j \in DOMAIN ParamsOf(query, i)[k].text :
                                ParamsOf(query, i)[k].text[j] = res.q[query.sql[i].name]

(* user-activity with dateFrom given empty and dateTo given                *)
C15_Witness ==
    /\ res.op = "activity_sql"
    /\ res.q["dateFrom"] = "" /\ res.q["dateTo"] = "2024-01-31"
    /\ Len(res.queries["forms_approved"].params) = 2

(* C16: every dateTo of a report is bound as the date followed by          *)
(* ' 23:59:59'; every dateFrom is bound as it came.                        *)
C16_DateToIsEndOfDay ==
    \A query \in StatementsOf(res) :
        \A i \in DOMAIN query.sql :
            /\ (res.op # "list_sql" /\ query.sql[i].name = "dateTo")
                  => ParamsOf(query, i) = <<Text(<<res.q["dateTo"], " 23:59:59">>)>>
            /\ (res.op # "list_sql" /\ query.sql[i].name = "dateFrom")
                  => ParamsOf(query, i) = <<Text(<<res.q["dateFrom"]>>)>>

----------------------------------------------------------------------------
(* GET /responsive-forms: the list handler run against the store           *)
(* (src/routes/responsiveForms.js, lines 21-101)                           *)

MaxListRows == 25     \* rows of the listed table

(* The number a JavaScript arithmetic operator or parseInt reads from a    *)
(* string of decimal digits                                                *)
NumberOf(s) == CHOOSE n \in 0..MaxListRows : ToString(n) = s

(* const { page = 1, limit = 10 } = req.query: the default replaces an     *)
(* absent parameter only                                                   *)
PageOf(raw)  == IF raw = NullStr THEN DefaultPage ELSE NumberOf(raw)
LimitOf(raw) == IF raw = NullStr THEN DefaultLimit ELSE NumberOf(raw)

(* A number that is not finite: Infinity or NaN                            *)
NotFinite(s) == [notfinite |-> s]

(* a ceiling that rounds down                                              *)
CeilDiv_Floor(total, limit) ==
    IF limit = 0
    THEN (IF total = 0 THEN NotFinite("NaN") ELSE NotFinite("Infinity"))
    ELSE Number(total \div limit)

(* Math.ceil(total / limit) in floating point: x / 0 is Infinity, 0 / 0 is *)
(* NaN, and Math.ceil returns both unchanged                               *)
CeilDiv(total, limit) ==
    IF limit = 0
    THEN (IF total = 0 THEN NotFinite("NaN") ELSE NotFinite("Infinity"))
    ELSE Number((total + limit - 1) \div limit)

(* The text SQLite compares with a bound text: the column as it is for a   *)
(* text column, its decimal digits for an integer column                   *)
ColumnText(row, column) ==
    IF column = "status" THEN row.status ELSE ToString(row[column])

(* The ids of the rows of a table that satisfy every predicate of a        *)
(* statement; each predicate of the forms list is `rf.<column> = ?` and    *)
(* the filter is named as its column                                       *)
Matching(table, query) ==
    {id \in DOMAIN table :
        \A i \in DOMAIN query.sql :
            query.sql[i].name \notin {"select", "page", "order"} =>
                ColumnText(table[id], query.sql[i].name) = ParamsOf(query, i)[1].text[1]}

(* ORDER BY rf.created_at DESC: the newest row, the one with the largest   *)
(* id, comes first                                                         *)
RECURSIVE NewestFirst(_)
NewestFirst(ids) ==
    IF ids = {} THEN <<>>
    ELSE LET newest == CHOOSE x \in ids : \A y \in ids : y <= x
         IN  <<newest>> \o NewestFirst(ids \ {newest})

(* LIMIT ? OFFSET ? over an ordered result (SQLite reads a negative OFFSET *)
(* as 0)                                                                   *)
LimitOffset(rows, limit, offset) ==
    LET from == IF offset < 0 THEN 0 ELSE offset
        to   == IF from + limit < Len(rows) THEN from + limit ELSE Len(rows)
    IN  SubSeq(rows, from + 1, to)

ListFrame == UNCHANGED <<assets, forms, maintenances, incidents, users, now>>

(* db.all(query, params, ...): the page statement.  The request keeps the  *)
(* rows (by id) for the response; `matched` remembers how many rows the    *)
(* WHERE clause matched in this store state and is sent to nobody.         *)
ListFormsPage(r, err) ==
    /\ ListFrame
    /\ reqs[r].pc = "list_forms"
    /\ LET limit  == LimitOf(reqs[r].limit)
           offset == (PageOf(reqs[r].page) - 1) * limit
           query  == PageQuery("forms", reqs[r].q, limit, offset)
           rows   == NewestFirst(Matching(forms, query))
       IN  IF err
           THEN /\ res' = Response("form_list", 0, NullStr, 500)
                /\ reqs' = [reqs EXCEPT ![r] = Idle]
           ELSE /\ reqs' = [reqs EXCEPT ![r] =
                              [pc |-> "count_forms", q |-> reqs[r].q,
                               page |-> reqs[r].page, limit |-> reqs[r].limit,
                               forms |-> LimitOffset(rows, limit, offset),
                               matched |-> Len(rows)]]
                /\ UNCHANGED res

(* db.get(countQuery, countParams, ...) and res.json({ forms, pagination }) *)
ListFormsCount(r, err) ==
    /\ ListFrame
    /\ reqs[r].pc = "count_forms"
    /\ reqs' = [reqs EXCEPT ![r] = Idle]
    /\ LET total == Cardinality(Matching(forms, CountQuery("forms", reqs[r].q)))
       IN  IF err
           THEN res' = Response("form_list", 0, NullStr, 500)
           ELSE res' = [op |-> "form_list", id |-> 0, arg |-> NullStr, code |-> 200,
                        q |-> reqs[r].q,
                        forms |-> reqs[r].forms,
                        pagination |->
                           [page  |-> PageOf(reqs[r].page),
                            limit |-> LimitOf(reqs[r].limit),
                            total |-> total,
                            totalPages |-> CeilDiv(total, LimitOf(reqs[r].limit))]]

(* The status of the i-th form of a filled table                           *)
StatusAt(i) == <<"pending", "approved", "rejected">>[(i % 3) + 1]

(* The i-th form of a filled table: created for one of the assets and one  *)
(* of the users, decided by user 1 unless still pending                    *)
FormAt(i) ==
    [FormRow(GeneratedCode(1, i), (i % MaxAssets) + 1, NULL, (i % MaxUsers) + 1)
       EXCEPT !.status = StatusAt(i),
              !.approved_by = IF StatusAt(i) = "pending" THEN NULL ELSE 1]

(* What the list requests of the model ask for                             *)
ListQueries ==
    {q \in [{"status", "asset_id", "new_responsible_id"} -> {NullStr, "", "pending", "1"}] :
        /\ q["status"] \in {NullStr, "", "pending"}
        /\ q["asset_id"] \in {NullStr, "1"}
        /\ q["new_responsible_id"] \in {NullStr, "1"}}
Pages  == {NullStr, "1", "2", "3", "4"}
Limits == {NullStr, "0", "1", "3", "10"}

(* A forms table of any size up to MaxListRows and one list request that   *)
(* has arrived; nothing else is running.                                   *)
InitList ==
    /\ assets = [a \in 1..MaxAssets |-> AssetRow(a, "active", NULL)]
    /\ \E n \in 0..MaxListRows : forms = [i \in 1..n |-> FormAt(i)]
    /\ maintenances = <<>>
    /\ incidents = <<>>
    /\ now = 1
    /\ users = SeedUsers
    /\ res = NoResponse
    /\ \E q \in ListQueries, page \in Pages, limit \in Limits :
          reqs = [r \in 1..MaxReqs |->
                    IF r = 1
                    THEN [pc |-> "list_forms", q |-> q, page |-> page, limit |-> limit]
                    ELSE Idle]

NextList ==
    \/ \E r \in 1..MaxReqs : ListFormsPage(r, FALSE)
    \/ \E r \in 1..MaxReqs : ListFormsCount(r, FALSE)

SpecList == InitList /\ [][NextList]_vars

(* The forms a req.query asks for: every filter that is present and not    *)
(* empty equals the row's column                                           *)
Asked(q) ==
    {id \in DOMAIN forms :
        /\ q["status"] \in {NullStr, ""} \/ forms[id].status = q["status"]
        /\ q["asset_id"] \in {NullStr, ""} \/ forms[id].asset_id = NumberOf(q["asset_id"])
        /\ q["new_responsible_id"] \in {NullStr, ""}
              \/ forms[id].new_responsible_id = NumberOf(q["new_responsible_id"])}

(* C13: with N rows matching the filters, page >= 1 and limit >= 1, the    *)
(* response holds exactly the rows at positions (page-1)*limit+1 ..        *)
(* min(page*limit, N) of the match set, newest first, with total = N and   *)
(* totalPages = ceil(N / limit).                                           *)
C13_PageOfMatchSet ==
    (res.op = "form_list" /\ res.code = 200 /\ res.pagination.limit >= 1) =>
        LET N     == Cardinality(Asked(res.q))
            page  == res.pagination.page
            limit == res.pagination.limit
            first == (page - 1) * limit + 1
            last  == IF page * limit < N THEN page * limit ELSE N
        IN  /\ page >= 1
            /\ Len(res.forms) = (IF last >= first THEN last - first + 1 ELSE 0)
            /\ \A k \in DOMAIN res.forms :
                  /\ res.forms[k] \in Asked(res.q)
                  /\ Cardinality({id \in Asked(res.q) : id > res.forms[k]}) = first + k - 2
            /\ res.pagination.total = N
            /\ \E pages \in 0..N :
                  /\ res.pagination.totalPages = Number(pages)
                  /\ pages * limit >= N
                  /\ (pages - 1) * limit < N

(* 25 forms, limit 10, page 3: the last 5 rows and totalPages 3            *)
C13_Witness ==
    /\ res.op = "form_list" /\ res.code = 200
    /\ Len(forms) = 25
    /\ res.pagination = [page |-> 3, limit |-> 10, total |-> 25, totalPages |-> Number(3)]
    /\ res.forms = <<5, 4, 3, 2, 1>>

(* C17: a list request with limit=0 is rejected or clamped: no success     *)
(* response carries a totalPages that is not a finite number.              *)
C17_NoDivisionByZero ==
    (res.op = "form_list" /\ res.code = 200) =>
        /\ "int" \in DOMAIN res.pagination.totalPages
        /\ res.pagination.limit >= 1

(* A list request has arrived while the transfers run: the asset table is  *)
(* filled, no form exists yet, and the other slot is free for the writers. *)
InitListW ==
    /\ assets = [a \in 1..MaxAssets |-> AssetRow(a, "active", NULL)]
    /\ forms = <<>>
    /\ maintenances = <<>>
    /\ incidents = <<>>
    /\ now = 1
    /\ users = SeedUsers
    /\ res = NoResponse
    /\ \E status \in {NullStr, "pending"} :
          reqs = [r \in 1..MaxReqs |->
                    IF r = 1
                    THEN [pc |-> "list_forms", page |-> NullStr, limit |-> NullStr,
                          q |-> [n \in {"status", "asset_id", "new_responsible_id"} |->
                                   IF n = "status" THEN status ELSE NullStr]]
                    ELSE Idle]

(* The list request between the creates and decisions of other requests    *)
NextListW ==
    \/ \E r \in 1..MaxReqs : ListFormsPage(r, FALSE)
    \/ \E r \in 1..MaxReqs : ListFormsCount(r, FALSE)
    \/ \E a \in AssetIds, u \in Users, rnd \in RandomSuffix :
           CreateFormGetAsset(a, u, rnd, TRUE, FALSE)
    \/ \E r \in 1..MaxReqs : CreateFormInsert(r, FALSE)
    \/ \E f \in FormIds, approved \in BOOLEAN :
           ApproveUpdateForm(f, approved, 1, TRUE, FALSE)
    \/ \E r \in 1..MaxReqs : ApproveGetForm(r, FALSE)
    \/ \E r \in 1..MaxReqs : ApproveUpdateAsset(r, FALSE)

SpecListW == InitListW /\ [][NextListW]_vars

(* C18: pagination.total is the number of rows that matched the filters    *)
(* in the store state the page was read from, also when other requests     *)
(* insert or update matching rows between the page statement and the       *)
(* count statement.                                                        *)
C18_TotalOfPageState ==
    [][\A r \in 1..MaxReqs :
          (reqs[r].pc = "count_forms" /\ reqs'[r] = Idle /\ res'.op = "form_list"
              /\ res'.code = 200)
          => res'.pagination.total = reqs[r].matched]_vars

----------------------------------------------------------------------------
(* Aggregate batches: GET /reports/dashboard (part_001:11-83),             *)
(* GET /reports/user-activity (part_001:464-536) and the four              *)
(* GET /stats/overview (part_000:482-518, 794-837;                         *)
(* responsiveForms.js:373-408, 748-790)                                    *)

MaxFail == 2      \* queries of one batch that the store fails

BatchEndpoints == {"/dashboard", "/user-activity", "assets/stats", "incidents/stats",
                   "maintenances/stats", "forms/stats"}

(* Object.keys(queries) of each handler                                    *)
BatchKeys(ep) ==
    CASE ep = "/dashboard" ->
           {"totalAssets", "assetsByCategory", "assetsWithoutResponsible",
            "expiredWarranties", "totalIncidents", "openIncidents",
            "incidentsByPriority", "totalMaintenances", "upcomingMaintenances",
            "overdueMaintenances", "pendingForms", "pendingRequisitions",
            "approvedRequisitionsValue"}
      [] ep = "/user-activity" -> ActivityKeys
      [] ep = "assets/stats" ->
           {"total", "byStatus", "byCategory", "expiredWarranty", "expiringWarranty"}
      [] ep = "incidents/stats" ->
           {"total", "byStatus", "byPriority", "open", "resolved", "avgResolutionTime"}
      [] ep = "maintenances/stats" ->
           {"total", "byStatus", "byType", "upcoming", "overdue", "totalCost"}
      [] ep = "forms/stats" ->
           {"total", "byStatus", "pending", "approved", "rejected", "thisMonth"}

(* a loop that hands over the first query only                             *)
Dispatched_FirstOnly(keys) == {CHOOSE key \in keys : TRUE}

(* Object.keys(queries).forEach(key => promises.push(new Promise(...))):   *)
(* the executor of each promise calls db.all / db.get at once, so the      *)
(* loop hands every query to the store before any callback runs            *)
Dispatched(keys) == keys

(* a handler that answers on every settlement                              *)
SettlesOnce_Always(settled) == TRUE

(* A promise settles once: .then / .catch of Promise.all run for the       *)
(* first settlement only                                                   *)
SettlesOnce(settled) == settled = "pending"

(* What the store hands to the callback of queries[key]                    *)
ResultOf(ep, key) == <<ep, key>>

(* The response of a batch: nth counts the responses sent for the request  *)
BatchError(ep, nth) ==
    [op |-> "stats", id |-> 0, arg |-> ep, code |-> 500, nth |-> nth]
BatchSuccess(ep, nth, stats) ==
    [op |-> "stats", id |-> 0, arg |-> ep, code |-> 200, nth |-> nth, stats |-> stats]

(* A batch whose statements would write: it empties the assets table       *)
BatchFrame_Writes ==
    /\ assets' = <<>>
    /\ UNCHANGED <<forms, maintenances, incidents, users, now>>
BatchFrame == UNCHANGED <<assets, forms, maintenances, incidents, users, now>>

(* The synchronous part of the handler: user-activity answers 400 without  *)
(* user_id; otherwise every query is handed to the store.                  *)
BatchIssue(r) ==
    /\ BatchFrame
    /\ reqs[r].pc = "stats"
    /\ IF reqs[r].ep = "/user-activity" /\ ~Truthy(reqs[r].user_id)
       THEN /\ res' = Response("stats", 0, reqs[r].ep, 400)
            /\ reqs' = [reqs EXCEPT ![r] = Idle]
       ELSE /\ reqs' = [reqs EXCEPT ![r] =
                          [pc |-> "batch", ep |-> reqs[r].ep,
                           issued |-> Dispatched(BatchKeys(reqs[r].ep)),
                           stats |-> <<>>, rejected |-> {},
                           settled |-> "pending", sent |-> 0]]
            /\ UNCHANGED res

(* The callback of one query, in any order: reject(err), or                *)
(* stats[key] = result and resolve(); then the reaction of Promise.all.    *)
BatchCallback(r, key, err) ==
    /\ BatchFrame
    /\ reqs[r].pc = "batch"
    /\ key \in reqs[r].issued
    /\ err => Cardinality(reqs[r].rejected) < MaxFail
    /\ LET b        == reqs[r]
           stats    == IF err THEN b.stats
                       ELSE [k \in DOMAIN b.stats \cup {key} |->
                               IF k = key THEN ResultOf(b.ep, key) ELSE b.stats[k]]
           rejected == IF err THEN b.rejected \cup {key} ELSE b.rejected
           issued   == b.issued \ {key}
           settles  == /\ SettlesOnce(b.settled)
                       /\ err \/ DOMAIN stats = BatchKeys(b.ep)
       IN  /\ res' = IF ~settles THEN res
                     ELSE IF err THEN BatchError(b.ep, b.sent + 1)
                     ELSE BatchSuccess(b.ep, b.sent + 1, stats)
           /\ reqs' = [reqs EXCEPT ![r] =
                         IF issued = {} THEN Idle
                         ELSE [b EXCEPT !.issued = issued, !.stats = stats,
                                        !.rejected = rejected,
                                        !.settled = IF ~settles THEN @
                                                    ELSE IF err THEN "rejected"
                                                    ELSE "fulfilled",
                                        !.sent = IF settles THEN @ + 1 ELSE @]]

(* One request has arrived at a batch endpoint                             *)
InitBatch ==
    /\ assets = <<>> /\ forms = <<>> /\ maintenances = <<>> /\ incidents = <<>>
    /\ now = 1
    /\ users = SeedUsers
    /\ res = NoResponse
    /\ \E ep \in BatchEndpoints, user_id \in QueryVals :
          /\ ep # "/user-activity" => user_id = NullStr
          /\ reqs = [r \in 1..MaxReqs |->
                       IF r = 1 THEN [pc |-> "stats", ep |-> ep, user_id |-> user_id]
                       ELSE Idle]

NextBatch ==
    \/ \E r \in 1..MaxReqs : BatchIssue(r)
    \/ \E r \in 1..MaxReqs, err \in BOOLEAN :
          \E key \in UNION {BatchKeys(ep) : ep \in BatchEndpoints} :
             BatchCallback(r, key, err)

SpecBatch == InitBatch /\ [][NextBatch]_vars

(* C19: when a query of a batch fails, the request gets exactly one        *)
(* response, a 500 that carries only a message, and no response of the     *)
(* request carries a result, whether the other queries completed before    *)
(* or after the failure.  A batch never gets a second response, has got    *)
(* one when its last callback has run, and gets a success only with the    *)
(* result of every query.                                                  *)
C19_FailedBatchIsOneError ==
    [][\A r \in 1..MaxReqs :
          (reqs[r].pc = "batch" /\ reqs'[r] # reqs[r]) =>
             LET b      == reqs[r]
                 sends  == res' # res
                 failed == \/ b.rejected # {}
                           \/ reqs'[r] # Idle /\ reqs'[r].rejected # {}
             IN  /\ sends => b.sent = 0 /\ res'.nth = 1
                 /\ reqs'[r] = Idle => sends \/ b.sent = 1
                 /\ failed => /\ res'.op = "stats"
                              /\ res'.code = 500
                              /\ "stats" \notin DOMAIN res'
                 /\ (sends /\ res'.code = 200) =>
                        /\ b.rejected = {}
                        /\ DOMAIN res'.stats = BatchKeys(b.ep)]_vars

(* two queries have failed, after some completed and before others do;     *)
(* the one response is the 500                                             *)
C19_Witness ==
    \E r \in 1..MaxReqs :
        /\ reqs[r].pc = "batch"
        /\ Cardinality(reqs[r].rejected) = 2
        /\ DOMAIN reqs[r].stats # {}
        /\ reqs[r].issued # {}
        /\ reqs[r].sent = 1
        /\ res = BatchError(reqs[r].ep, 1)

(* C20: the handler hands every query of the batch to the store before     *)
(* any of them has completed, and the success response is sent in the      *)
(* step of the last callback, with exactly one entry for each query name.  *)
C20_AllIssuedThenAllDone ==
    [][\A r \in 1..MaxReqs :
          /\ (reqs[r].pc = "stats" /\ reqs'[r] # reqs[r] /\ res' = res) =>
                /\ reqs'[r].pc = "batch"
                /\ reqs'[r].issued = BatchKeys(reqs[r].ep)
                /\ DOMAIN reqs'[r].stats = {}
                /\ reqs'[r].rejected = {}
          /\ (reqs[r].pc = "batch" /\ res' # res /\ res'.code = 200) =>
                /\ reqs'[r] = Idle
                /\ Cardinality(reqs[r].issued) = 1
                /\ DOMAIN reqs[r].stats \cup reqs[r].issued = BatchKeys(reqs[r].ep)
                /\ DOMAIN res'.stats = BatchKeys(reqs[r].ep)
                /\ \A key \in BatchKeys(reqs[r].ep) :
                      res'.stats[key] = ResultOf(reqs[r].ep, key)]_vars

(* the dashboard answered with its thirteen results                        *)
C20_Witness ==
    /\ res.op = "stats" /\ res.code = 200 /\ res.arg = "/dashboard"
    /\ Cardinality(DOMAIN res.stats) = 13
    /\ \A r \in 1..MaxReqs : reqs[r] = Idle

----------------------------------------------------------------------------
(* The read-only endpoints over a filled store: GET /reports/dashboard,    *)
(* /reports/user-activity, the four stats/overview and the five reports.   *)
(* Every statement they hand to the store is a SELECT (db.all, db.get).    *)

(* The callback of the one db.all of a report: 500, or the rows            *)
ReportCallback(r, err) ==
    /\ QueryFrame
    /\ reqs[r].pc = "report"
    /\ reqs' = [reqs EXCEPT ![r] = Idle]
    /\ res' = Response("report", 0, reqs[r].ep, IF err THEN 500 ELSE 200)

(* A store with rows in every table, and one request arrived at a batch    *)
(* endpoint or at a report endpoint.                                       *)
InitReads ==
    /\ now = 1
    /\ assets = [a \in 1..MaxAssets |-> AssetRow(a, "active", 1)]
    /\ forms = <<FormRow(GeneratedCode(1, 0), 1, 1, 1)>>
    /\ maintenances = <<MaintenanceRow(GeneratedCode(1, 0), 5, "note")>>
    /\ incidents = <<IncidentRow(GeneratedCode(1, 0), 1)>>
    /\ users = SeedUsers
    /\ res = NoResponse
    /\ \/ \E ep \in BatchEndpoints, user_id \in QueryVals :
             /\ ep # "/user-activity" => user_id = NullStr
             /\ reqs = [r \in 1..MaxReqs |->
                          IF r = 1 THEN [pc |-> "stats", ep |-> ep, user_id |-> user_id]
                          ELSE Idle]
       \/ \E ep \in ReportEndpoints :
             \E q \in Queries(HandlerParams(ep)) :
                reqs = [r \in 1..MaxReqs |->
                          IF r = 1 THEN [pc |-> "report", ep |-> ep, q |-> q]
                          ELSE Idle]

NextReads ==
    \/ \E r \in 1..MaxReqs : BatchIssue(r)
    \/ \E r \in 1..MaxReqs, err \in BOOLEAN :
          \E key \in UNION {BatchKeys(ep) : ep \in BatchEndpoints} :
             BatchCallback(r, key, err)
    \/ \E r \in 1..MaxReqs, err \in BOOLEAN : ReportCallback(r, err)

SpecReads == InitReads /\ [][NextReads]_vars

(* C21: every step of a stats/overview, dashboard or report request, the   *)
(* ones that answer an error included, leaves every table as it was.       *)
C21_ReadsLeaveStore ==
    [][UNCHANGED <<assets, forms, maintenances, incidents, users>>]_vars

(* A read that failed has been answered over a store that holds rows       *)
C21_Witness ==
    /\ res.op \in {"stats", "report"}
    /\ res.code = 500
    /\ assets # <<>> /\ forms # <<>> /\ maintenances # <<>> /\ incidents # <<>>

----------------------------------------------------------------------------
(* Field validation of the maintenances router (express-validator).        *)
(* A body field is a JSON value: its type and the text the store keeps     *)
(* when the value is bound to a TEXT column.                               *)
JsonValue(type, text) == [type |-> type, text |-> text]
Absent == JsonValue("undefined", NullStr)

(* body('notes').optional().isString()                                     *)
NotesRule(notes) == notes = Absent \/ notes.type = "string"

BodyNotes == {Absent, JsonValue("string", "note"), JsonValue("number", "7")}

(* PUT /maintenances/:id/complete: the handler reads req.body and runs its *)
(* UPDATE; validationResult(req) is never consulted.                       *)
CompleteRequest(id, notes, cost, err) ==
    CompleteMaintenance(id, notes.text, cost, err)

NextValidate ==
    \/ \E rnd \in RandomSuffix, bodyOk \in BOOLEAN :
           CreateMaintenance(rnd, 5, "note", bodyOk, FALSE)
    \/ \E m \in MaintIds, st \in MaintStatuses, bodyOk \in BOOLEAN :
           UpdateMaintenance(m, st, 5, "note", bodyOk, FALSE)
    \/ \E m \in MaintIds, c \in Costs, n \in BodyNotes, err \in BOOLEAN :
           CompleteRequest(m, n, c, err)

SpecValidate == Init /\ [][NextValidate]_vars

(* C22: a request of the maintenances router whose body violates a         *)
(* declared rule (create, update, and complete with its 'notes' rule) is   *)
(* answered 400 and leaves the maintenances as they were.                  *)
C22_InvalidBodyIsRejected ==
    [][\A err \in BOOLEAN :
        /\ \A rnd \in RandomSuffix, c \in Costs, n \in Notes :
              CreateMaintenance(rnd, c, n, FALSE, err)
                 => res'.code = 400 /\ maintenances' = maintenances
        /\ \A m \in MaintIds, st \in MaintStatuses, c \in Costs, n \in Notes :
              UpdateMaintenance(m, st, c, n, FALSE, err)
                 => res'.code = 400 /\ maintenances' = maintenances
        /\ \A m \in MaintIds, c \in Costs, n \in BodyNotes :
              (~NotesRule(n) /\ CompleteRequest(m, n, c, err))
                 => res'.code = 400 /\ maintenances' = maintenances]_vars

----------------------------------------------------------------------------
(* Authentication: routes of src/unnamed/part_000, lines 1-188             *)

AuthFrame == UNCHANGED <<assets, forms, maintenances, incidents, now>>

(* SELECT * FROM users WHERE (username = ? OR email = ?) AND active = 1,   *)
(* both placeholders bound to the username of the body: the first match.   *)
FindActive(username) ==
    LET found == {u \in DOMAIN users :
                    /\ users[u].username = username \/ users[u].email = username
                    /\ users[u].active}
    IN  IF found = {} THEN NULL ELSE CHOOSE u \in found : \A v \in found : u <= v

(* POST /auth/login up to bcrypt.compare: validation, the SELECT, 401      *)
LoginGet(username, password, bodyOk, err) ==
    /\ AuthFrame
    /\ UNCHANGED users
    /\ IF ~bodyOk
       THEN /\ res' = Response("login", 0, NullStr, 400)
            /\ UNCHANGED reqs
       ELSE IF err
       THEN /\ res' = Response("login", 0, NullStr, 500)
            /\ UNCHANGED reqs
       ELSE IF FindActive(username) = NULL
       THEN /\ res' = Response("login", 0, NullStr, 401)
            /\ UNCHANGED reqs
       ELSE /\ FreeSlots # {}
            /\ reqs' = [reqs EXCEPT ![NewSlot] =
                          [pc |-> "compare", id |-> FindActive(username),
                           password |-> password,
                           hash |-> users[FindActive(username)].password]]
            /\ UNCHANGED res

(* The callback of bcrypt.compare: 401, or the UPDATE of updated_at is     *)
(* handed to the store without a callback and the success is sent at once. *)
LoginCompare(r) ==
    /\ AuthFrame
    /\ UNCHANGED users
    /\ reqs[r].pc = "compare"
    /\ IF ~Compare(reqs[r].password, reqs[r].hash)
       THEN /\ res' = Response("login", reqs[r].id, NullStr, 401)
            /\ reqs' = [reqs EXCEPT ![r] = Idle]
       ELSE /\ res' = Response("login", reqs[r].id, NullStr, 200)
            /\ reqs' = [reqs EXCEPT ![r] =
                          [pc |-> "touch_user", id |-> reqs[r].id, answered |-> 200]]

(* The store runs UPDATE users SET updated_at = CURRENT_TIMESTAMP of a     *)
(* login; nobody listens to its outcome.                                   *)
LoginTouch(r, err) ==
    /\ AuthFrame
    /\ reqs[r].pc = "touch_user"
    /\ reqs' = [reqs EXCEPT ![r] = Idle]
    /\ UNCHANGED res
    /\ IF err THEN UNCHANGED users
       ELSE users' = [users EXCEPT ![reqs[r].id].updated_at = now]

(* POST /auth/register up to bcrypt.hash: 403, validation, the SELECT      *)
RegisterCheck(isAdmin, username, email, password, bodyOk, err) ==
    /\ AuthFrame
    /\ UNCHANGED users
    /\ IF ~isAdmin
       THEN /\ res' = Response("register", 0, NullStr, 403)
            /\ UNCHANGED reqs
       ELSE IF ~bodyOk
       THEN /\ res' = Response("register", 0, NullStr, 400)
            /\ UNCHANGED reqs
       ELSE IF err
       THEN /\ res' = Response("register", 0, NullStr, 500)
            /\ UNCHANGED reqs
       ELSE IF \E u \in DOMAIN users :
                  users[u].username = username \/ users[u].email = email
       THEN /\ res' = Response("register", 0, NullStr, 400)
            /\ UNCHANGED reqs
       ELSE /\ FreeSlots # {}
            /\ Len(users) + Inserting("ins_user") < MaxUsers
            /\ reqs' = [reqs EXCEPT ![NewSlot] =
                          [pc |-> "ins_user",
                           row |-> UserRow(username, email, Hash(password), "user")]]
            /\ UNCHANGED res

(* POST /auth/register, the INSERT: username and email are UNIQUE          *)
RegisterInsert(r, err) ==
    /\ AuthFrame
    /\ reqs[r].pc = "ins_user"
    /\ reqs' = [reqs EXCEPT ![r] = Idle]
    /\ IF err \/ \E u \in DOMAIN users :
                    \/ users[u].username = reqs[r].row.username
                    \/ users[u].email = reqs[r].row.email
       THEN /\ res' = Response("register", 0, NullStr, 500)
            /\ UNCHANGED users
       ELSE /\ users' = Append(users, [reqs[r].row EXCEPT !.updated_at = now])
            /\ res' = Response("register", Len(users) + 1, NullStr, 201)

(* PUT /auth/change-password up to bcrypt.compare: validation, the SELECT  *)
ChangePasswordGet(userId, currentPassword, newPassword, bodyOk, err) ==
    /\ AuthFrame
    /\ UNCHANGED users
    /\ IF ~bodyOk
       THEN /\ res' = Response("change_password", userId, NullStr, 400)
            /\ UNCHANGED reqs
       ELSE IF err
       THEN /\ res' = Response("change_password", userId, NullStr, 500)
            /\ UNCHANGED reqs
       ELSE /\ FreeSlots # {}
            /\ Has(users, userId)
            /\ reqs' = [reqs EXCEPT ![NewSlot] =
                          [pc |-> "upd_password", id |-> userId,
                           currentPassword |-> currentPassword,
                           newPassword |-> newPassword,
                           hash |-> users[userId].password]]
            /\ UNCHANGED res

(* bcrypt.compare and bcrypt.hash, then UPDATE users SET password = ?      *)
ChangePasswordUpdate(r, err) ==
    /\ AuthFrame
    /\ reqs[r].pc = "upd_password"
    /\ reqs' = [reqs EXCEPT ![r] = Idle]
    /\ IF ~Compare(reqs[r].currentPassword, reqs[r].hash)
       THEN /\ res' = Response("change_password", reqs[r].id, NullStr, 400)
            /\ UNCHANGED users
       ELSE IF err
       THEN /\ res' = Response("change_password", reqs[r].id, NullStr, 500)
            /\ UNCHANGED users
       ELSE /\ users' = [users EXCEPT ![reqs[r].id] =
                           [@ EXCEPT !.password = Hash(reqs[r].newPassword),
                                     !.updated_at = now]]
            /\ res' = Response("change_password", reqs[r].id, NullStr, 200)

Usernames == {"admin", "ana"}
Passwords == {"admin123", "secret1"}

NextAuth ==
    \/ \E n \in Usernames, p \in Passwords, bodyOk \in BOOLEAN, err \in BOOLEAN :
           LoginGet(n, p, bodyOk, err)
    \/ \E r \in 1..MaxReqs : LoginCompare(r)
    \/ \E r \in 1..MaxReqs, err \in BOOLEAN : LoginTouch(r, err)
    \/ \E isAdmin \in BOOLEAN, bodyOk \in BOOLEAN, err \in BOOLEAN :
           RegisterCheck(isAdmin, "ana", "ana@beachscape.com", "secret1", bodyOk, err)
    \/ \E r \in 1..MaxReqs, err \in BOOLEAN : RegisterInsert(r, err)
    \/ \E u \in Users, c \in Passwords, bodyOk \in BOOLEAN, err \in BOOLEAN :
           ChangePasswordGet(u, c, "secret1", bodyOk, err)
    \/ \E r \in 1..MaxReqs, err \in BOOLEAN : ChangePasswordUpdate(r, err)
    \/ Tick

SpecAuth == Init /\ [][NextAuth]_vars

----------------------------------------------------------------------------
(* Every handler that writes assets or users, together: the asset          *)
(* registry, the approval's asset update, register, login, change-password *)
NextRows ==
    \/ \E c \in 1..MaxAssets : CreateAssetCheck(c, "active", 1, TRUE, FALSE)
    \/ \E r \in 1..MaxReqs, err \in BOOLEAN : CreateAssetInsert(r, err)
    \/ \E a \in AssetIds, u \in Users : UpdateAsset(a, "active", u, TRUE, FALSE)
    \/ \E a \in AssetIds, isAdmin \in BOOLEAN : DeleteAsset(a, isAdmin, FALSE)
    \/ LoginGet("admin", "admin123", TRUE, FALSE)
    \/ \E r \in 1..MaxReqs : LoginCompare(r)
    \/ \E r \in 1..MaxReqs, err \in BOOLEAN : LoginTouch(r, err)
    \/ RegisterCheck(TRUE, "ana", "ana@beachscape.com", "secret1", TRUE, FALSE)
    \/ \E r \in 1..MaxReqs, err \in BOOLEAN : RegisterInsert(r, err)
    \/ ChangePasswordGet(1, "admin123", "secret1", TRUE, FALSE)
    \/ \E r \in 1..MaxReqs, err \in BOOLEAN : ChangePasswordUpdate(r, err)

SpecRows == Init /\ [][NextRows]_vars

(* C23: no step removes an asset row or a user row (each row keeps its id  *)
(* and its asset_code or username, and the tables never get shorter), and  *)
(* a successful DELETE /assets/:id changes nothing but the status of its   *)
(* row, which becomes 'inactive'.                                          *)
C23_RowsAreNeverRemoved ==
    [][/\ Len(assets') >= Len(assets)
       /\ Len(users') >= Len(users)
       /\ \A a \in DOMAIN assets : assets'[a].asset_code = assets[a].asset_code
       /\ \A u \in DOMAIN users : users'[u].username = users[u].username
       /\ (Answers("asset_delete") /\ res'.code = 200)
             => /\ assets' = [assets EXCEPT ![res'.id].status = "inactive"]
                /\ users' = users]_vars

(* An asset that has a responsible user has been deleted and is still in   *)
(* the table, next to a user registered after the seed.                    *)
C23_Witness ==
    /\ res.op = "asset_delete" /\ res.code = 200
    /\ res.id \in DOMAIN assets
    /\ assets[res.id].status = "inactive"
    /\ assets[res.id].responsible_user_id # NULL
    /\ Len(assets) = MaxAssets
    /\ Len(users) > 1

----------------------------------------------------------------------------
(* C27: a step in which a statement of an auth request fails (the SELECT   *)
(* or the updated_at write of a login, the SELECT or INSERT of a register, *)
(* the SELECT or UPDATE of a change-password) sends that request's error   *)
(* response, and the request had not been answered with success before.    *)
C27_FailedStatementFailsRequest ==
    [][\A r \in 1..MaxReqs :
        /\ (\/ \E n \in Usernames, p \in Passwords : LoginGet(n, p, TRUE, TRUE)
            \/ RegisterCheck(TRUE, "ana", "ana@beachscape.com", "secret1", TRUE, TRUE)
            \/ \E u \in Users, c \in Passwords :
                  ChangePasswordGet(u, c, "secret1", TRUE, TRUE))
           => res'.code = 500
        /\ (reqs[r].pc = "touch_user" /\ LoginTouch(r, TRUE))
           => res'.code = 500 /\ res' # res /\ reqs[r].answered # 200
        /\ RegisterInsert(r, TRUE) => res'.code = 500
        /\ (/\ reqs[r].pc = "upd_password"
            /\ Compare(reqs[r].currentPassword, reqs[r].hash)
            /\ ChangePasswordUpdate(r, TRUE))
           => res'.code = 500]_vars

----------------------------------------------------------------------------
(* C24: the previous_responsible_id of a form row is the                   *)
(* responsible_user_id its asset has in the state in which the row is      *)
(* inserted, whatever happened between the handler's SELECT and its INSERT *)
C24_PreviousIsCurrentAtInsert ==
    [][\A f \in DOMAIN forms' :
          f \notin DOMAIN forms
             => forms'[f].previous_responsible_id
                   = assets[forms'[f].asset_id].responsible_user_id]_vars

----------------------------------------------------------------------------
(* The text of a generated code: generateFormCode (responsiveForms.js),    *)
(* generateMaintenanceCode, generateIncidentCode.  A string is the         *)
(* sequence of its characters.                                             *)

(* Number.prototype.toString() of a natural number                         *)
RECURSIVE Digits(_)
Digits(n) == IF n < 10 THEN <<ToString(n)>>
             ELSE Append(Digits(n \div 10), ToString(n % 10))

(* String.prototype.substr(start) with a negative start: the last -start   *)
(* characters, or the whole string when it is shorter.                     *)
Substr(s, start) ==
    LET from == IF Len(s) + start < 0 THEN 0 ELSE Len(s) + start
    IN  SubSeq(s, from + 1, Len(s))

(* padStart without its padding                                            *)
PadStart_None(s, targetLength, padString) == s
(* String.prototype.padStart(targetLength, padString), padString one char  *)
PadStart(s, targetLength, padString) ==
    IF Len(s) >= targetLength THEN s
    ELSE [i \in 1..targetLength |->
            IF i <= targetLength - Len(s) THEN padString
            ELSE s[i - (targetLength - Len(s))]]

CodeKinds == {"form", "maintenance", "incident"}

CodePrefix(kind) ==
    CASE kind = "form"        -> <<"F", "R">>
      [] kind = "maintenance" -> <<"M", "N", "T">>
      [] kind = "incident"    -> <<"I", "N", "C">>

(* `PREFIX-${year}${month}${day}-${random}` with getFullYear(), getMonth() *)
(* (0..11), getDate() and Math.floor(Math.random() * 1000)                 *)
CodeText(kind, fullYear, month, date, random) ==
    CodePrefix(kind) \o <<"-">>
        \o Substr(Digits(fullYear), -2)
        \o PadStart(Digits(month + 1), 2, "0")
        \o PadStart(Digits(date), 2, "0")
        \o <<"-">>
        \o PadStart(Digits(random), 3, "0")

(* What new Date() and Math.random() can give, by sample                   *)
FullYears == {1999, 2000, 2009, 2026, 2100}
Months    == 0..11
Dates     == {1, 9, 10, 31}
Randoms   == {0, 7, 10, 99, 100, 999}

(* A generator has been called: the clock and the random draw are fixed    *)
InitCodes ==
    /\ assets = <<>> /\ forms = <<>> /\ maintenances = <<>> /\ incidents = <<>>
    /\ now = 1
    /\ users = SeedUsers
    /\ res = NoResponse
    /\ \E kind \in CodeKinds, y \in FullYears, m \in Months, d \in Dates,
          rnd \in Randoms :
          reqs = [r \in 1..MaxReqs |->
                    IF r = 1 THEN [pc |-> "code", kind |-> kind, fullYear |-> y,
                                   month |-> m, date |-> d, random |-> rnd]
                    ELSE Idle]

GenerateCode(r) ==
    /\ UNCHANGED <<assets, forms, maintenances, incidents, users, now>>
    /\ reqs[r].pc = "code"
    /\ reqs' = [reqs EXCEPT ![r] = Idle]
    /\ res' = [op |-> "code", kind |-> reqs[r].kind, fullYear |-> reqs[r].fullYear,
               month |-> reqs[r].month, date |-> reqs[r].date,
               random |-> reqs[r].random,
               code |-> CodeText(reqs[r].kind, reqs[r].fullYear, reqs[r].month,
                                 reqs[r].date, reqs[r].random)]

NextCodes == \E r \in 1..MaxReqs : GenerateCode(r)
SpecCodes == InitCodes /\ [][NextCodes]_vars

IsDigit(c) == \E d \in 0..9 : ToString(d) = c
DigitValue(c) == CHOOSE d \in 0..9 : ToString(d) = c
(* The number a run of two or three digits is read as                      *)
ValueOf(s) ==
    IF Len(s) = 2 THEN 10 * DigitValue(s[1]) + DigitValue(s[2])
    ELSE 100 * DigitValue(s[1]) + 10 * DigitValue(s[2]) + DigitValue(s[3])

(* C25: a generated code is its prefix (FR, MNT, INC), a dash, six digits  *)
(* that read as the year modulo 100, the month 01..12 and the day of the   *)
(* generation date, a dash, and three digits that read as the random       *)
(* number, which is in 0..999.                                             *)
C25_CodeShape ==
    res.op = "code" =>
        LET pre  == CodePrefix(res.kind)
            n    == Len(pre)
            code == res.code
        IN  /\ pre = IF res.kind = "incident" THEN <<"I", "N", "C">>
                     ELSE IF res.kind = "maintenance" THEN <<"M", "N", "T">>
                     ELSE <<"F", "R">>
            /\ Len(code) = n + 11
            /\ SubSeq(code, 1, n) = pre
            /\ code[n + 1] = "-" /\ code[n + 8] = "-"
            /\ \A i \in (n + 2)..(n + 7) \cup (n + 9)..(n + 11) : IsDigit(code[i])
            /\ ValueOf(SubSeq(code, n + 2, n + 3)) = res.fullYear % 100
            /\ ValueOf(SubSeq(code, n + 4, n + 5)) = res.month + 1
            /\ ValueOf(SubSeq(code, n + 6, n + 7)) = res.date
            /\ ValueOf(SubSeq(code, n + 9, n + 11)) = res.random
            /\ res.random \in 0..999

(* A code whose month, day and random number all needed padding            *)
C25_Witness ==
    /\ res.op = "code"
    /\ res.code = <<"M", "N", "T", "-", "0", "9", "0", "3", "0", "9", "-",
                    "0", "0", "7">>

----------------------------------------------------------------------------
(* Creates whose generated code may be taken: incidents, maintenances and  *)
(* responsive forms over the assets of InitForms, no store failure.        *)
NextCollide ==
    \/ \E rnd \in RandomSuffix : CreateIncident(rnd, 1, TRUE, FALSE)
    \/ \E rnd \in RandomSuffix : CreateMaintenance(rnd, 5, "note", TRUE, FALSE)
    \/ \E rnd \in RandomSuffix : CreateFormGetAsset(1, 1, rnd, TRUE, FALSE)
    \/ \E r \in 1..MaxReqs : CreateFormInsert(r, FALSE)
    \/ Tick

SpecCollide == InitForms /\ [][NextCollide]_vars

(* C26: a create whose generated code is already stored for its kind is    *)
(* answered 500 in the step of its INSERT, which adds and changes no row    *)
(* and leaves nothing of the request in flight (no second attempt).        *)
C26_CollisionIsError ==
    [][/\ \A rnd \in RandomSuffix, u \in UserOrNull :
             (/\ \E i \in DOMAIN incidents :
                    incidents[i].incident_code = GeneratedCode(now, rnd)
              /\ CreateIncident(rnd, u, TRUE, FALSE))
                => /\ res' = Response("inc_create", 0, NullStr, 500)
                   /\ incidents' = incidents /\ reqs' = reqs
       /\ \A rnd \in RandomSuffix :
             (/\ \E m \in DOMAIN maintenances :
                    maintenances[m].maintenance_code = GeneratedCode(now, rnd)
              /\ CreateMaintenance(rnd, 5, "note", TRUE, FALSE))
                => /\ res' = Response("maint_create", 0, NullStr, 500)
                   /\ maintenances' = maintenances /\ reqs' = reqs
       /\ \A r \in 1..MaxReqs :
             (/\ reqs[r].pc = "ins_form"
              /\ \E f \in DOMAIN forms : forms[f].form_code = reqs[r].row.form_code
              /\ CreateFormInsert(r, FALSE))
                => /\ res' = Response("form_create", 0, NullStr, 500)
                   /\ forms' = forms /\ reqs'[r] = Idle]_vars

(* Each kind holds one row, and the last create, of a form whose code was   *)
(* taken, has been refused.                                                *)
C26_Witness ==
    /\ res = Response("form_create", 0, NullStr, 500)
    /\ Len(forms) = 1 /\ Len(incidents) = 1 /\ Len(maintenances) = 1

----------------------------------------------------------------------------
(* Concurrent decisions: pending forms that all transfer asset 1, each to  *)
(* another user, and decision requests of any user, the store answering.   *)
InitDecide ==
    /\ \E u \in UserOrNull :
          /\ assets = [a \in 1..MaxAssets |-> AssetRow(a, "active", u)]
          /\ forms = [f \in 1..(MaxForms + 1) |->
                        FormRow(GeneratedCode(1, f - 1), 1, u, f)]
    /\ maintenances = <<>>
    /\ incidents = <<>>
    /\ reqs = [r \in 1..MaxReqs |-> Idle]
    /\ now = 1
    /\ users = SeedUsers
    /\ res = NoResponse

NextDecide ==
    \/ \E f \in DOMAIN forms, approved \in BOOLEAN, approved_by \in Users :
           ApproveUpdateForm(f, approved, approved_by, TRUE, FALSE)
    \/ \E r \in 1..MaxReqs : ApproveGetForm(r, FALSE)
    \/ \E r \in 1..MaxReqs : ApproveUpdateAsset(r, FALSE)

SpecDecide == InitDecide /\ [][NextDecide]_vars

(* The callbacks of the store are always run in the end (the event loop    *)
(* of the process); nothing forces a request to arrive.                    *)
SpecDecideFair ==
    /\ SpecDecide
    /\ \A r \in 1..MaxReqs : /\ WF_vars(ApproveGetForm(r, FALSE))
                             /\ WF_vars(ApproveUpdateAsset(r, FALSE))

(* The requests in flight that go on with the approval of form f           *)
Approving(q, f) ==
    {r \in 1..MaxReqs : q[r].pc \in {"get_form", "upd_asset"} /\ q[r].id = f}

(* C28: of the decisions on one form exactly one wins.  The form is        *)
(* written only while it is pending, so its status and approved_by stay    *)
(* those of the first decision the store ran; every decision that finds    *)
(* it decided is answered 404 and changes nothing; only the winner goes on *)
(* or is answered 200, with the status it asked for; and the asset changes *)
(* only in the last statement of a winning approval.                       *)
C28_OneDecisionWins ==
    [][\A f \in DOMAIN forms :
        /\ forms[f].status # "pending" => forms'[f] = forms[f]
        /\ (Answers("form_decide") /\ res'.id = f /\ forms[f].status # "pending")
              => /\ res'.code = 404
                 /\ assets' = assets /\ forms' = forms
        /\ (res' # res /\ res'.op = "form_decide" /\ res'.id = f /\ res'.code = 200)
              => /\ forms'[f].status = DecisionStatus(res'.arg = "true")
                 /\ \/ forms[f].status = "pending"
                    \/ Approving(reqs, f) # {} /\ Approving(reqs', f) = {}
        /\ Approving(reqs', f) \ Approving(reqs, f) # {}
              => /\ forms[f].status = "pending" /\ forms'[f].status = "approved"
                 /\ Approving(reqs, f) = {}
        /\ Cardinality(Approving(reqs', f)) <= 1
        /\ assets' # assets
              => \E g \in DOMAIN forms :
                    /\ forms[g].status = "approved"
                    /\ Approving(reqs, g) # {} /\ Approving(reqs', g) = {}
                    /\ assets' = [assets EXCEPT ![forms[g].asset_id].responsible_user_id =
                                                   forms[g].new_responsible_id]]_vars

(* A second decision on a form has been answered not-found while the       *)
(* approval that won, by user 2, is still in flight.                       *)
C28_Witness ==
    /\ res.op = "form_decide" /\ res.code = 404
    /\ res.id \in DOMAIN forms
    /\ forms[res.id].status = "approved"
    /\ forms[res.id].approved_by = 2
    /\ Approving(reqs, res.id) # {}

(* C29: once every form of the asset but g is decided and g is still       *)
(* pending, g is the form approved last: from then on, whenever g is       *)
(* approved and no request is in flight, the asset's responsible user is   *)
(* g's new_responsible_id.                                                 *)
C29_LastApprovalWins ==
    \A g \in 1..(MaxForms + 1) :
        []((/\ forms[g].status = "pending"
            /\ \A f \in DOMAIN forms : f # g => forms[f].status = "approved")
           => []((/\ forms[g].status = "approved"
                  /\ \A r \in 1..MaxReqs : reqs[r] = Idle)
                 => assets[forms[g].asset_id].responsible_user_id
                       = forms[g].new_responsible_id))

----------------------------------------------------------------------------
(* C30: an incident has a resolved_date exactly when its status is         *)
(* 'resolved' or 'closed'.                                                 *)
C30_ResolvedDateIffResolved ==
    \A i \in DOMAIN incidents :
        incidents[i].resolved_date # NULL
            <=> incidents[i].status \in {"resolved", "closed"}

====
